---------------------------- MODULE Spec2Model ----------------------------
(***************************************************************************)
(* Model of the star-field compute core (src/wasm/src/math.rs and          *)
(* src/wasm/src/star_field.rs): the lazily built sine table, the index     *)
(* seeded pseudo-random generator, the persistent star memory pool, the    *)
(* generation stage, the per-frame effect engine, the temporal coherence   *)
(* functions, the speed multiplier and the frustum culling entry points;   *)
(* and of the spatial hash grid (src/wasm/src/spatial.rs).                 *)
(*                                                                         *)
(* f32 values are modelled in decimal fixed point: the integer v stands    *)
(* for the real v / SCALE.  One extra value, NaN, stands for the IEEE      *)
(* not-a-number; every arithmetic operator propagates it and every         *)
(* comparison with it is FALSE, as IEEE 754 prescribes.                    *)
(* A Vec<f32> / slice is a sequence; element i of the code is element      *)
(* i + 1 of the sequence.  A u64 word is the set of its set bit positions. *)
(* A local `let` of the code is a parameter of a helper operator or is     *)
(* written out in place.                                                   *)
(***************************************************************************)
EXTENDS Integers, Sequences, FiniteSets, TLC

VARIABLES
    STAR_MEMORY_POOL,   \* Option<StarMemoryPool>: << >> is None, <<p>> is Some(p)
    sin_table_built,    \* TRUE iff SIN_TABLE holds Some(table)
    next_alloc,         \* heap: serial number of the next buffer allocated
    pointers,           \* Option: the StarMemoryPointers the host last received
    frame_result,       \* Option: the FrameUpdateResult the host last received
    host_copy,          \* Option: the host's copy of the generated buffers
    writes,             \* slots written by the last generation / frame update
    call,               \* Option: last call of a pure entry point and its result
    spatial_grid,       \* Option: the SpatialGrid the host has constructed
    render_pipeline,    \* Option: the RenderPipeline the host has constructed
    meteor_system,      \* Option: the MeteorSystem the host has constructed
    particle_pool,      \* Option: the ParticlePool the host has constructed
    particle_system,    \* Option: the ParticleSystem the host has constructed
    scatter_text,       \* Option: the scatter-text state the host has set up
    memory_pool         \* Option: the MemoryPool the host has constructed

\* the meteor, particle, scatter-text and buffer-pool objects
other_systems ==
    <<render_pipeline, meteor_system, particle_pool, particle_system,
      scatter_text, memory_pool>>

vars == <<STAR_MEMORY_POOL, sin_table_built, next_alloc, pointers,
          frame_result, host_copy, writes, call, spatial_grid,
          other_systems>>

\* none of the meteor, particle, scatter-text and buffer-pool objects has
\* been constructed
NoOtherSystems ==
    /\ render_pipeline = << >>
    /\ meteor_system = << >>
    /\ particle_pool = << >>
    /\ particle_system = << >>
    /\ scatter_text = << >>
    /\ memory_pool = << >>

\* ------------------------------------------------------------------------
\* f32 arithmetic (fixed point)
\* ------------------------------------------------------------------------

\* decimal digits kept after the point by the fixed-point form of f32
SCALE_DIGITS == 4

\* resolution of the fixed-point representation of f32: 1 / SCALE
SCALE == 10 ^ SCALE_DIGITS

\* the IEEE NaN of f32, a value outside the fixed-point range
NaN == 2000 * 1000 * 1000

IsNaN(a) == a = NaN

\* i as f32, for a small integer i
F32(i) == i * SCALE

\* the f32 literal w.dddd, d being its four digits after the point
Dec(w, d) == w * SCALE + d

FAdd(a, b) == IF IsNaN(a) \/ IsNaN(b) THEN NaN ELSE a + b

FSub(a, b) == IF IsNaN(a) \/ IsNaN(b) THEN NaN ELSE a - b

FNeg(a) == IF IsNaN(a) THEN NaN ELSE 0 - a

\* a * b, rounded down to the resolution; the product is split in whole and
\* fractional parts so that no intermediate value leaves the 32-bit range
FMul(a, b) ==
    IF IsNaN(a) \/ IsNaN(b) THEN NaN
    ELSE (a \div SCALE) * (b \div SCALE) * SCALE
             + (a \div SCALE) * (b % SCALE)
             + (a % SCALE) * (b \div SCALE)
             + ((a % SCALE) * (b % SCALE)) \div SCALE

RECURSIVE FracDigits(_, _, _)
\* the first n decimal digits of r / b for 0 <= r < b, by long division
FracDigits(r, b, n) ==
    IF n = 0 THEN 0
    ELSE ((r * 10) \div b) * 10 ^ (n - 1) + FracDigits((r * 10) % b, b, n - 1)

\* f32::abs
FAbs(a) == IF IsNaN(a) THEN NaN ELSE IF a < 0 THEN 0 - a ELSE a

\* a / b for a >= 0 and b > 0, truncated to the resolution
FDivMagnitude(a, b) ==
    (a \div b) * SCALE + FracDigits(a % b, b, SCALE_DIGITS)

\* a / b for b # 0 (every division of the code is by a nonzero constant or
\* guarded by length > 0.0), truncated to the resolution
FDiv(a, b) ==
    IF IsNaN(a) \/ IsNaN(b) THEN NaN
    ELSE IF (a < 0) = (b < 0) THEN FDivMagnitude(FAbs(a), FAbs(b))
    ELSE 0 - FDivMagnitude(FAbs(a), FAbs(b))

\* IEEE comparisons: FALSE as soon as one side is NaN
FLt(a, b) == ~IsNaN(a) /\ ~IsNaN(b) /\ a < b

FGt(a, b) == ~IsNaN(a) /\ ~IsNaN(b) /\ a > b

FGe(a, b) == ~IsNaN(a) /\ ~IsNaN(b) /\ a >= b

\* f32::floor
FFloor(a) == IF IsNaN(a) THEN NaN ELSE (a \div SCALE) * SCALE

\* f32::INFINITY; -Infinity is f32::NEG_INFINITY.  Only FRem takes it
Infinity == NaN - 1

\* the f32 remainder a % b of Rust (fmod): the sign of the dividend, NaN
\* for an infinite dividend
FRem(a, b) ==
    IF IsNaN(a) \/ IsNaN(b) \/ a = Infinity \/ a = 0 - Infinity THEN NaN
    ELSE IF a < 0 THEN 0 - ((0 - a) % b) ELSE a % b

\* `as usize` on an f32: truncation, saturating at 0, NaN becomes 0
AsUsize(a) == IF IsNaN(a) THEN 0 ELSE IF a < 0 THEN 0 ELSE a \div SCALE

\* usize::min
Min(a, b) == IF a < b THEN a ELSE b

\* usize::div_ceil
DivCeil(a, b) == (a + b - 1) \div b

\* std::f32::consts::PI
PI == Dec(3, 1416)

\* PI * 2.0
TWO_PI == FMul(PI, F32(2))

\* PI / 2.0
HALF_PI == FDiv(PI, F32(2))

\* Taylor series of the sine in Horner form, up to the term of degree 9;
\* y2 is the square of the angle y
SinSeries(y, y2) ==
    FMul(y, SCALE - FMul(y2, SCALE - FMul(y2, SCALE - FMul(y2,
            SCALE - FMul(y2, SCALE) \div 72) \div 42) \div 20) \div 6)

\* sine of an angle y of the first quadrant, 0 <= y <= PI/2
SinQuadrant(y) == Min(SinSeries(y, FMul(y, y)), SCALE)

\* sine of an angle r already reduced to [0, 2 PI), quadrant by quadrant
SinReduced(r) ==
    IF r <= HALF_PI THEN SinQuadrant(r)
    ELSE IF r <= PI THEN SinQuadrant(PI - r)
    ELSE IF r <= PI + HALF_PI THEN 0 - SinQuadrant(r - PI)
    ELSE 0 - SinQuadrant(TWO_PI - r)

\* f32::sin, the library sine
F32Sin(a) == IF IsNaN(a) THEN NaN ELSE SinReduced(a % TWO_PI)

\* f32::cos, the library cosine
F32Cos(a) == F32Sin(FAdd(a, HALF_PI))

RECURSIVE ACosSearch(_, _, _)
\* the angle of [lo, hi] whose cosine is v, by bisection (cos decreases)
ACosSearch(v, lo, hi) ==
    IF hi - lo <= 1 THEN lo
    ELSE IF F32Cos((lo + hi) \div 2) > v
         THEN ACosSearch(v, (lo + hi) \div 2, hi)
         ELSE ACosSearch(v, lo, (lo + hi) \div 2)

\* f32::acos on [-1, 1]
F32ACos(v) == IF IsNaN(v) THEN NaN ELSE ACosSearch(v, 0, PI)

RECURSIVE SqrtSearch(_, _, _)
\* the largest r of [lo, hi] with r * r <= n
SqrtSearch(n, lo, hi) ==
    IF hi - lo <= 1 THEN lo
    ELSE IF ((lo + hi) \div 2) * ((lo + hi) \div 2) <= n
         THEN SqrtSearch(n, (lo + hi) \div 2, hi)
         ELSE SqrtSearch(n, lo, (lo + hi) \div 2)

\* f32::sqrt of 0 <= a < 16.0: sqrt(a / SCALE) * SCALE = sqrt(a * SCALE)
F32Sqrt(a) ==
    IF IsNaN(a) THEN NaN ELSE SqrtSearch(a * SCALE, 0, 4 * SCALE)

\* ------------------------------------------------------------------------
\* math.rs: sine lookup table
\* ------------------------------------------------------------------------

SIN_TABLE_SIZE == 1024

\* the table ensure_sin_table_initialized builds: entry i is the library
\* sine of (i / SIN_TABLE_SIZE) * PI * 2.0
sin_table_contents ==
    [i \in 0..(SIN_TABLE_SIZE - 1) |->
        F32Sin(FMul(FMul(FDiv(F32(i), F32(SIN_TABLE_SIZE)), PI), F32(2)))]

\* a table read of twice the amplitude
get_sin_value_doubled(index) ==
    IF index < SIN_TABLE_SIZE THEN 2 * sin_table_contents[index] ELSE 0

\* table.get(index).copied().unwrap_or(0.0) on the initialized table
get_sin_value(index) ==
    IF index < SIN_TABLE_SIZE THEN sin_table_contents[index] ELSE 0

\* a table index without the second remainder and without the clamp
sin_table_index_unwrapped(a) ==
    AsUsize(FMul(FDiv(FAdd(FRem(a, TWO_PI), TWO_PI), TWO_PI),
                 F32(SIN_TABLE_SIZE)))

\* the table index of an angle: normalize into [0, 2 PI), scale, truncate,
\* clamp to the last entry
sin_table_index(a) ==
    Min(AsUsize(FMul(FDiv(FRem(FAdd(FRem(a, TWO_PI), TWO_PI), TWO_PI),
                          TWO_PI),
                     F32(SIN_TABLE_SIZE))),
        SIN_TABLE_SIZE - 1)

fast_sin_lookup(a) == get_sin_value(sin_table_index(a))

\* fast_sin_batch: one table read per element
fast_sin_batch(values) ==
    [k \in 1..Len(values) |-> sin_table_contents[sin_table_index(values[k])]]

\* 16 independent table reads, lane by lane
fast_sin_lookup_simd_16(values) ==
    [k \in 1..16 |-> sin_table_contents[sin_table_index(values[k])]]

\* ------------------------------------------------------------------------
\* math.rs: index-seeded pseudo-random generator
\* ------------------------------------------------------------------------

\* 12.9898
SEED_FACTOR1 == Dec(12, 9898)

\* 78.233
SEED_FACTOR2 == Dec(78, 2330)

\* 43758.5453
SEED_FACTOR3 == Dec(43758, 5453)

\* a - a.floor()
Fract(a) == FSub(a, FFloor(a))

\* scalar generator: fract(sin(i * 12.9898 + 78.233) * 43758.5453), with the
\* library sine
seed_random(i) ==
    Fract(FMul(F32Sin(FAdd(FMul(F32(i), SEED_FACTOR1), SEED_FACTOR2)),
               SEED_FACTOR3))

\* seed_random_batch: the scalar formula, written out again, for the
\* indices start .. start + count - 1
seed_random_batch(start, count) ==
    [k \in 1..count |->
        Fract(FMul(F32Sin(FAdd(FMul(F32(start + k - 1), SEED_FACTOR1),
                               SEED_FACTOR2)),
                   SEED_FACTOR3))]

\* wide generator: the same formula over 16 consecutive indices, with the
\* table lookup as its sine
seed_random_simd_batch_16(start) ==
    [k \in 1..16 |->
        Fract(FMul(fast_sin_lookup_simd_16(
                       [n \in 1..16 |->
                           FAdd(FMul(F32(start + n - 1), SEED_FACTOR1),
                                SEED_FACTOR2)])[k],
                   SEED_FACTOR3))]

\* ------------------------------------------------------------------------
\* star_field.rs: the star memory pool
\* ------------------------------------------------------------------------

SIMD_BATCH_SIZE == 16

BITPACK_BATCH_SIZE == 8

\* bits of a u64 word
WORD_BITS == 64

\* u64::MAX: every bit set
U64_MAX == 0..(WORD_BITS - 1)

\* vec![default_value; size]
create_aligned_vec(size, default_value) == [j \in 1..size |-> default_value]

\* the ten buffers of a pool, in the order StarMemoryPool::new allocates them
BufferNames ==
    <<"positions_x", "positions_y", "positions_z", "colors_r", "colors_g",
      "colors_b", "sizes", "twinkles", "sparkles", "visibility_mask">>

\* a capacity without padding
aligned_count_exact(count) == count

\* count.div_ceil(SIMD_BATCH_SIZE) * SIMD_BATCH_SIZE
aligned_count(count) == DivCeil(count, SIMD_BATCH_SIZE) * SIMD_BATCH_SIZE

\* StarMemoryPool::new(count); base is the serial number the heap gives the
\* first of the ten buffers, the address of a buffer being its serial number
StarMemoryPool_new(count, base) ==
    [positions_x |-> create_aligned_vec(aligned_count(count), F32(0)),
     positions_y |-> create_aligned_vec(aligned_count(count), F32(0)),
     positions_z |-> create_aligned_vec(aligned_count(count), F32(0)),
     colors_r |-> create_aligned_vec(aligned_count(count), F32(1)),
     colors_g |-> create_aligned_vec(aligned_count(count), F32(1)),
     colors_b |-> create_aligned_vec(aligned_count(count), F32(1)),
     sizes |-> create_aligned_vec(aligned_count(count), F32(1)),
     twinkles |-> create_aligned_vec(aligned_count(count), F32(1)),
     sparkles |-> create_aligned_vec(aligned_count(count), F32(0)),
     visibility_mask |->
         [w \in 1..DivCeil(aligned_count(count), WORD_BITS) |-> U64_MAX],
     count |-> count,
     ptr |-> [n \in 1..Len(BufferNames) |-> base + n - 1]]

\* StarMemoryPool::get_pointers
get_pointers(pool) ==
    [positions_x_ptr |-> pool.ptr[1],
     positions_y_ptr |-> pool.ptr[2],
     positions_z_ptr |-> pool.ptr[3],
     colors_r_ptr |-> pool.ptr[4],
     colors_g_ptr |-> pool.ptr[5],
     colors_b_ptr |-> pool.ptr[6],
     sizes_ptr |-> pool.ptr[7],
     twinkles_ptr |-> pool.ptr[8],
     sparkles_ptr |-> pool.ptr[9],
     visibility_ptr |-> pool.ptr[10],
     count |-> pool.count,
     positions_x_length |-> Len(pool.positions_x),
     positions_y_length |-> Len(pool.positions_y),
     positions_z_length |-> Len(pool.positions_z),
     colors_r_length |-> Len(pool.colors_r),
     colors_g_length |-> Len(pool.colors_g),
     colors_b_length |-> Len(pool.colors_b),
     sizes_length |-> Len(pool.sizes),
     twinkles_length |-> Len(pool.twinkles),
     sparkles_length |-> Len(pool.sparkles),
     visibility_length |-> Len(pool.visibility_mask)]

\* ------------------------------------------------------------------------
\* star_field.rs: generation stage
\* ------------------------------------------------------------------------

\* a generation that writes the padding slots as well
generation_writes_padded(count) ==
    [n \in 1..(((count + SIMD_BATCH_SIZE - 1) \div SIMD_BATCH_SIZE)
                  * SIMD_BATCH_SIZE) |-> n - 1]

\* the slots a generation loop pair writes, in program order: the 16 slots
\* of each full chunk, then the count % 16 slots of the scalar remainder
generation_writes(count) ==
    [n \in 1..((count \div SIMD_BATCH_SIZE) * SIMD_BATCH_SIZE) |->
        ((n - 1) \div SIMD_BATCH_SIZE) * SIMD_BATCH_SIZE
            + ((n - 1) % SIMD_BATCH_SIZE)]
    \o [n \in 1..(count % SIMD_BATCH_SIZE) |->
        (count \div SIMD_BATCH_SIZE) * SIMD_BATCH_SIZE + (n - 1)]

\* radius_vec of the batch that starts at start_index
radius_vec(start_index, min_radius, max_radius) ==
    [k \in 1..16 |->
        FAdd(min_radius, FMul(seed_random_simd_batch_16(start_index)[k],
                              FSub(max_radius, min_radius)))]

\* theta_vec of the batch that starts at start_index
theta_vec(start_index) ==
    [k \in 1..16 |->
        FMul(seed_random_simd_batch_16(start_index + 1000)[k], TWO_PI)]

\* phi_values of the batch that starts at start_index
phi_values(start_index) ==
    [k \in 1..16 |->
        F32ACos(FSub(FMul(F32(2),
                          seed_random_simd_batch_16(start_index + 2000)[k]),
                     F32(1)))]

\* one 16-lane batch of generate_star_positions_simd_direct: spherical to
\* cartesian through the table lookups
positions_simd_chunk(chunk, min_radius, max_radius) ==
    [x_vec |-> [k \in 1..16 |->
        FMul(FMul(radius_vec(chunk * SIMD_BATCH_SIZE,
                             min_radius, max_radius)[k],
                  fast_sin_lookup_simd_16(
                      phi_values(chunk * SIMD_BATCH_SIZE))[k]),
             fast_sin_lookup_simd_16(
                 [n \in 1..16 |->
                     FAdd(theta_vec(chunk * SIMD_BATCH_SIZE)[n],
                          HALF_PI)])[k])],
     y_vec |-> [k \in 1..16 |->
        FMul(FMul(radius_vec(chunk * SIMD_BATCH_SIZE,
                             min_radius, max_radius)[k],
                  fast_sin_lookup_simd_16(
                      phi_values(chunk * SIMD_BATCH_SIZE))[k]),
             fast_sin_lookup_simd_16(
                 theta_vec(chunk * SIMD_BATCH_SIZE))[k])],
     z_vec |-> [k \in 1..16 |->
        FMul(radius_vec(chunk * SIMD_BATCH_SIZE, min_radius, max_radius)[k],
             fast_sin_lookup_simd_16(
                 [n \in 1..16 |->
                     FAdd(phi_values(chunk * SIMD_BATCH_SIZE)[n],
                          HALF_PI)])[k])]]

\* radius of a star of the scalar remainder
radius(global_index, min_radius, max_radius) ==
    FAdd(min_radius,
         FMul(seed_random(global_index), FSub(max_radius, min_radius)))

\* theta of a star of the scalar remainder
theta(global_index) ==
    FMul(FMul(seed_random(global_index + 1000), PI), F32(2))

\* phi of a star of the scalar remainder
phi(global_index) ==
    F32ACos(FSub(FMul(F32(2), seed_random(global_index + 2000)), F32(1)))

\* one star of the scalar remainder of generate_star_positions_simd_direct:
\* spherical to cartesian through the library sine and cosine
positions_scalar(global_index, min_radius, max_radius) ==
    [x |-> FMul(FMul(radius(global_index, min_radius, max_radius),
                     F32Sin(phi(global_index))),
                F32Cos(theta(global_index))),
     y |-> FMul(FMul(radius(global_index, min_radius, max_radius),
                     F32Sin(phi(global_index))),
                F32Sin(theta(global_index))),
     z |-> FMul(radius(global_index, min_radius, max_radius),
                F32Cos(phi(global_index)))]

\* generate_star_positions_simd_direct: the three arrays after the call
\* (the slots of the full chunks, the slots of the scalar remainder, the
\* slots left untouched) and the slots it wrote
generate_star_positions_simd_direct(positions_x, positions_y, positions_z, count, min_radius, max_radius) ==
    [positions_x |->
        [n \in 1..((count \div SIMD_BATCH_SIZE) * SIMD_BATCH_SIZE) |->
            positions_simd_chunk((n - 1) \div SIMD_BATCH_SIZE,
                min_radius, max_radius)
                    .x_vec[((n - 1) % SIMD_BATCH_SIZE) + 1]]
        \o [n \in 1..(count % SIMD_BATCH_SIZE) |->
            positions_scalar(
                (count \div SIMD_BATCH_SIZE) * SIMD_BATCH_SIZE + (n - 1),
                min_radius, max_radius).x]
        \o SubSeq(positions_x, count + 1, Len(positions_x)),
     positions_y |->
        [n \in 1..((count \div SIMD_BATCH_SIZE) * SIMD_BATCH_SIZE) |->
            positions_simd_chunk((n - 1) \div SIMD_BATCH_SIZE,
                min_radius, max_radius)
                    .y_vec[((n - 1) % SIMD_BATCH_SIZE) + 1]]
        \o [n \in 1..(count % SIMD_BATCH_SIZE) |->
            positions_scalar(
                (count \div SIMD_BATCH_SIZE) * SIMD_BATCH_SIZE + (n - 1),
                min_radius, max_radius).y]
        \o SubSeq(positions_y, count + 1, Len(positions_y)),
     positions_z |->
        [n \in 1..((count \div SIMD_BATCH_SIZE) * SIMD_BATCH_SIZE) |->
            positions_simd_chunk((n - 1) \div SIMD_BATCH_SIZE,
                min_radius, max_radius)
                    .z_vec[((n - 1) % SIMD_BATCH_SIZE) + 1]]
        \o [n \in 1..(count % SIMD_BATCH_SIZE) |->
            positions_scalar(
                (count \div SIMD_BATCH_SIZE) * SIMD_BATCH_SIZE + (n - 1),
                min_radius, max_radius).z]
        \o SubSeq(positions_z, count + 1, Len(positions_z)),
     written |-> generation_writes(count)]

\* the mask selects of one lane of generate_star_colors_simd_direct: purple
\* by default, then yellow, blue and white where their masks are set (the
\* select applied last wins)
colors_simd_lane(color_choice) ==
    IF FLt(color_choice, Dec(0, 5000))
        THEN <<Dec(1, 0), Dec(1, 0), Dec(1, 0)>>
    ELSE IF FGe(color_choice, Dec(0, 5000)) /\ FLt(color_choice, Dec(0, 7000))
        THEN <<Dec(0, 6000), Dec(0, 8000), Dec(1, 0)>>
    ELSE IF FGe(color_choice, Dec(0, 7000)) /\ FLt(color_choice, Dec(0, 8500))
        THEN <<Dec(1, 0), Dec(0, 8000), Dec(0, 4000)>>
    ELSE <<Dec(0, 8000), Dec(0, 6000), Dec(1, 0)>>

\* one 16-lane batch of generate_star_colors_simd_direct
colors_simd_chunk(chunk) ==
    [k \in 1..16 |->
        colors_simd_lane(
            seed_random_simd_batch_16(chunk * SIMD_BATCH_SIZE + 3000)[k])]

\* an if-chain whose thresholds belong to the lower preset
colors_scalar_inclusive(color_choice) ==
    IF FGe(Dec(0, 5000), color_choice)
        THEN <<Dec(1, 0), Dec(1, 0), Dec(1, 0)>>
    ELSE IF FGe(Dec(0, 7000), color_choice)
        THEN <<Dec(0, 6000), Dec(0, 8000), Dec(1, 0)>>
    ELSE IF FGe(Dec(0, 8500), color_choice)
        THEN <<Dec(1, 0), Dec(0, 8000), Dec(0, 4000)>>
    ELSE <<Dec(0, 8000), Dec(0, 6000), Dec(1, 0)>>

\* the if-chain of the scalar remainder of generate_star_colors_simd_direct
colors_scalar_choice(color_choice) ==
    IF FLt(color_choice, Dec(0, 5000))
        THEN <<Dec(1, 0), Dec(1, 0), Dec(1, 0)>>
    ELSE IF FLt(color_choice, Dec(0, 7000))
        THEN <<Dec(0, 6000), Dec(0, 8000), Dec(1, 0)>>
    ELSE IF FLt(color_choice, Dec(0, 8500))
        THEN <<Dec(1, 0), Dec(0, 8000), Dec(0, 4000)>>
    ELSE <<Dec(0, 8000), Dec(0, 6000), Dec(1, 0)>>

\* one star of the scalar remainder of generate_star_colors_simd_direct
colors_scalar(global_index) ==
    colors_scalar_choice(seed_random(global_index + 3000))

\* generate_star_colors_simd_direct: the three arrays after the call and
\* the slots it wrote
generate_star_colors_simd_direct(colors_r, colors_g, colors_b, count) ==
    [colors_r |->
        [n \in 1..((count \div SIMD_BATCH_SIZE) * SIMD_BATCH_SIZE) |->
            colors_simd_chunk((n - 1) \div SIMD_BATCH_SIZE)
                [((n - 1) % SIMD_BATCH_SIZE) + 1][1]]
        \o [n \in 1..(count % SIMD_BATCH_SIZE) |->
            colors_scalar(
                (count \div SIMD_BATCH_SIZE) * SIMD_BATCH_SIZE + (n - 1))[1]]
        \o SubSeq(colors_r, count + 1, Len(colors_r)),
     colors_g |->
        [n \in 1..((count \div SIMD_BATCH_SIZE) * SIMD_BATCH_SIZE) |->
            colors_simd_chunk((n - 1) \div SIMD_BATCH_SIZE)
                [((n - 1) % SIMD_BATCH_SIZE) + 1][2]]
        \o [n \in 1..(count % SIMD_BATCH_SIZE) |->
            colors_scalar(
                (count \div SIMD_BATCH_SIZE) * SIMD_BATCH_SIZE + (n - 1))[2]]
        \o SubSeq(colors_g, count + 1, Len(colors_g)),
     colors_b |->
        [n \in 1..((count \div SIMD_BATCH_SIZE) * SIMD_BATCH_SIZE) |->
            colors_simd_chunk((n - 1) \div SIMD_BATCH_SIZE)
                [((n - 1) % SIMD_BATCH_SIZE) + 1][3]]
        \o [n \in 1..(count % SIMD_BATCH_SIZE) |->
            colors_scalar(
                (count \div SIMD_BATCH_SIZE) * SIMD_BATCH_SIZE + (n - 1))[3]]
        \o SubSeq(colors_b, count + 1, Len(colors_b)),
     written |-> generation_writes(count)]

\* one 16-lane batch of generate_star_sizes_simd_direct
sizes_simd_chunk(chunk, size_multiplier) ==
    [k \in 1..16 |->
        FMul(IF FLt(seed_random_simd_batch_16(
                        chunk * SIMD_BATCH_SIZE + 4000)[k], Dec(0, 7000))
             THEN FAdd(Dec(1, 0),
                       FMul(seed_random_simd_batch_16(
                                chunk * SIMD_BATCH_SIZE + 5000)[k],
                            Dec(1, 5000)))
             ELSE FAdd(Dec(2, 5000),
                       FMul(seed_random_simd_batch_16(
                                chunk * SIMD_BATCH_SIZE + 6000)[k],
                            Dec(2, 0))),
             size_multiplier)]

\* one star of the scalar remainder of generate_star_sizes_simd_direct
sizes_scalar(global_index, size_multiplier) ==
    FMul(IF FLt(seed_random(global_index + 4000), Dec(0, 7000))
         THEN FAdd(Dec(1, 0),
                   FMul(seed_random(global_index + 5000), Dec(1, 5000)))
         ELSE FAdd(Dec(2, 5000),
                   FMul(seed_random(global_index + 6000), Dec(2, 0))),
         size_multiplier)

\* generate_star_sizes_simd_direct: the array after the call and the slots
\* it wrote
generate_star_sizes_simd_direct(sizes, count, size_multiplier) ==
    [sizes |->
        [n \in 1..((count \div SIMD_BATCH_SIZE) * SIMD_BATCH_SIZE) |->
            sizes_simd_chunk((n - 1) \div SIMD_BATCH_SIZE, size_multiplier)
                [((n - 1) % SIMD_BATCH_SIZE) + 1]]
        \o [n \in 1..(count % SIMD_BATCH_SIZE) |->
            sizes_scalar(
                (count \div SIMD_BATCH_SIZE) * SIMD_BATCH_SIZE + (n - 1),
                size_multiplier)]
        \o SubSeq(sizes, count + 1, Len(sizes)),
     written |-> generation_writes(count)]

\* ------------------------------------------------------------------------
\* star_field.rs: per-frame effect engine
\* ------------------------------------------------------------------------

\* chunks / 2 for chunks = count / 16: iterations of the unrolled loop
unrolled_chunks(count) == (count \div SIMD_BATCH_SIZE) \div 2

\* chunks % 2: chunks left to the loop that is not unrolled
remaining_chunks(count) == (count \div SIMD_BATCH_SIZE) % 2

\* sparkle_phase of the first chunk of iteration unroll_idx of the unrolled
\* loop of calculate_effects_into_buffers_simd
sparkle_phase(positions_x, positions_y, unroll_idx, time) ==
    fast_sin_lookup_simd_16(
        [n \in 1..16 |->
            FAdd(FAdd(FMul(time, Dec(15, 0)),
                      FMul(positions_x[unroll_idx * 2 * SIMD_BATCH_SIZE + n],
                           Dec(20, 0))),
                 FMul(positions_y[unroll_idx * 2 * SIMD_BATCH_SIZE + n],
                      Dec(30, 0)))])

\* sparkle_values of the first chunk of the unrolled loop
sparkle_values(positions_x, positions_y, unroll_idx, time) ==
    [k \in 1..16 |->
        IF FGt(sparkle_phase(positions_x, positions_y, unroll_idx, time)[k],
               Dec(0, 9800))
        THEN FMul(FSub(sparkle_phase(positions_x, positions_y, unroll_idx,
                                     time)[k],
                       Dec(0, 9800)),
                  Dec(50, 0))
        ELSE F32(0)]

\* first chunk of iteration unroll_idx of the unrolled loop: what it stores
\* into twinkles and sparkles at base_idx .. base_idx + 15
effects_unrolled_chunk1(positions_x, positions_y, unroll_idx, time) ==
    [twinkle_array |-> [k \in 1..16 |->
        FAdd(FAdd(FMul(fast_sin_lookup_simd_16(
                           [n \in 1..16 |->
                               FAdd(FAdd(FMul(time, Dec(3, 0)),
                                         FMul(positions_x[unroll_idx * 2
                                                  * SIMD_BATCH_SIZE + n],
                                              Dec(10, 0))),
                                    FMul(positions_y[unroll_idx * 2
                                             * SIMD_BATCH_SIZE + n],
                                         Dec(10, 0)))])[k],
                       Dec(0, 3000)),
                  Dec(0, 7000)),
             sparkle_values(positions_x, positions_y, unroll_idx, time)[k])],
     sparkle_array |->
         sparkle_values(positions_x, positions_y, unroll_idx, time)]

\* sparkle_phase2 of the second chunk of iteration unroll_idx
sparkle_phase2(positions_x, positions_y, unroll_idx, time) ==
    fast_sin_lookup_simd_16(
        [n \in 1..16 |->
            FAdd(FAdd(FMul(time, Dec(15, 0)),
                      FMul(positions_x[(unroll_idx * 2 + 1)
                               * SIMD_BATCH_SIZE + n],
                           Dec(20, 0))),
                 FMul(positions_y[(unroll_idx * 2 + 1) * SIMD_BATCH_SIZE + n],
                      Dec(30, 0)))])

\* sparkle_values2 of the second chunk of the unrolled loop
sparkle_values2(positions_x, positions_y, unroll_idx, time) ==
    [k \in 1..16 |->
        IF FGt(sparkle_phase2(positions_x, positions_y, unroll_idx, time)[k],
               Dec(0, 9800))
        THEN FMul(FSub(sparkle_phase2(positions_x, positions_y, unroll_idx,
                                      time)[k],
                       Dec(0, 9800)),
                  Dec(50, 0))
        ELSE F32(0)]

\* second chunk of iteration unroll_idx of the unrolled loop
effects_unrolled_chunk2(positions_x, positions_y, unroll_idx, time) ==
    [twinkle_array |-> [k \in 1..16 |->
        FAdd(FAdd(FMul(fast_sin_lookup_simd_16(
                           [n \in 1..16 |->
                               FAdd(FAdd(FMul(time, Dec(3, 0)),
                                         FMul(positions_x[(unroll_idx * 2 + 1)
                                                  * SIMD_BATCH_SIZE + n],
                                              Dec(10, 0))),
                                    FMul(positions_y[(unroll_idx * 2 + 1)
                                             * SIMD_BATCH_SIZE + n],
                                         Dec(10, 0)))])[k],
                       Dec(0, 3000)),
                  Dec(0, 7000)),
             sparkle_values2(positions_x, positions_y, unroll_idx, time)[k])],
     sparkle_array |->
         sparkle_values2(positions_x, positions_y, unroll_idx, time)]

\* sparkle_phase of one chunk of the loop over the chunks that could not be
\* unrolled
remaining_sparkle_phase(positions_x, positions_y, chunk, time) ==
    fast_sin_lookup_simd_16(
        [n \in 1..16 |->
            FAdd(FAdd(FMul(time, Dec(15, 0)),
                      FMul(positions_x[chunk * SIMD_BATCH_SIZE + n],
                           Dec(20, 0))),
                 FMul(positions_y[chunk * SIMD_BATCH_SIZE + n], Dec(30, 0)))])

\* sparkle_values of one chunk of the loop that is not unrolled
remaining_sparkle_values(positions_x, positions_y, chunk, time) ==
    [k \in 1..16 |->
        IF FGt(remaining_sparkle_phase(positions_x, positions_y, chunk,
                                       time)[k],
               Dec(0, 9800))
        THEN FMul(FSub(remaining_sparkle_phase(positions_x, positions_y,
                                               chunk, time)[k],
                       Dec(0, 9800)),
                  Dec(50, 0))
        ELSE F32(0)]

\* one chunk of the loop over the chunks that could not be unrolled
effects_remaining_chunk(positions_x, positions_y, chunk, time) ==
    [twinkle_array |-> [k \in 1..16 |->
        FAdd(FAdd(FMul(fast_sin_lookup_simd_16(
                           [n \in 1..16 |->
                               FAdd(FAdd(FMul(time, Dec(3, 0)),
                                         FMul(positions_x[chunk
                                                  * SIMD_BATCH_SIZE + n],
                                              Dec(10, 0))),
                                    FMul(positions_y[chunk
                                             * SIMD_BATCH_SIZE + n],
                                         Dec(10, 0)))])[k],
                       Dec(0, 3000)),
                  Dec(0, 7000)),
             remaining_sparkle_values(positions_x, positions_y, chunk,
                                      time)[k])],
     sparkle_array |->
         remaining_sparkle_values(positions_x, positions_y, chunk, time)]

\* a scalar sparkle that is not scaled to 0 .. 1
sparkle_unscaled(star_x, star_y, time) ==
    IF FGt(fast_sin_lookup(
               FAdd(FAdd(FMul(time, Dec(15, 0)), FMul(star_x, Dec(20, 0))),
                    FMul(star_y, Dec(30, 0)))),
           Dec(0, 9800))
    THEN FSub(fast_sin_lookup(
                  FAdd(FAdd(FMul(time, Dec(15, 0)),
                            FMul(star_x, Dec(20, 0))),
                       FMul(star_y, Dec(30, 0)))),
              Dec(0, 9800))
    ELSE F32(0)

\* sparkle of one star of the scalar loop over the remaining elements
sparkle(star_x, star_y, time) ==
    IF FGt(fast_sin_lookup(
               FAdd(FAdd(FMul(time, Dec(15, 0)), FMul(star_x, Dec(20, 0))),
                    FMul(star_y, Dec(30, 0)))),
           Dec(0, 9800))
    THEN FDiv(FSub(fast_sin_lookup(
                       FAdd(FAdd(FMul(time, Dec(15, 0)),
                                 FMul(star_x, Dec(20, 0))),
                            FMul(star_y, Dec(30, 0)))),
                   Dec(0, 9800)),
              Dec(0, 200))
    ELSE F32(0)

\* one star of the scalar loop: what it stores into twinkles[i], sparkles[i]
effects_scalar(star_x, star_y, time) ==
    [twinkle |->
        FAdd(FAdd(FMul(fast_sin_lookup(
                           FAdd(FAdd(FMul(time, Dec(3, 0)),
                                     FMul(star_x, Dec(10, 0))),
                                FMul(star_y, Dec(10, 0)))),
                       Dec(0, 3000)),
                  Dec(0, 7000)),
             sparkle(star_x, star_y, time)),
     sparkle |-> sparkle(star_x, star_y, time)]

\* the slots calculate_effects_into_buffers_simd writes, in program order:
\* two chunks per iteration of the unrolled loop, the chunk left over, the
\* scalar loop from chunks * 16 to count
effects_writes(count) ==
    [n \in 1..(unrolled_chunks(count) * 2 * SIMD_BATCH_SIZE) |->
        IF (n - 1) % (2 * SIMD_BATCH_SIZE) < SIMD_BATCH_SIZE
        THEN (((n - 1) \div (2 * SIMD_BATCH_SIZE)) * 2) * SIMD_BATCH_SIZE
                 + ((n - 1) % (2 * SIMD_BATCH_SIZE))
        ELSE (((n - 1) \div (2 * SIMD_BATCH_SIZE)) * 2 + 1) * SIMD_BATCH_SIZE
                 + (((n - 1) % (2 * SIMD_BATCH_SIZE)) - SIMD_BATCH_SIZE)]
    \o [n \in 1..(remaining_chunks(count) * SIMD_BATCH_SIZE) |->
        (unrolled_chunks(count) * 2 + ((n - 1) \div SIMD_BATCH_SIZE))
            * SIMD_BATCH_SIZE + ((n - 1) % SIMD_BATCH_SIZE)]
    \o [n \in 1..(count - (count \div SIMD_BATCH_SIZE) * SIMD_BATCH_SIZE) |->
        (count \div SIMD_BATCH_SIZE) * SIMD_BATCH_SIZE + (n - 1)]

\* calculate_effects_into_buffers_simd: twinkles and sparkles after the
\* call (the slots of the unrolled loop, of the chunk left over, of the
\* scalar loop, the slots left untouched) and the slots it wrote
calculate_effects_into_buffers_simd(positions_x, positions_y, twinkles, sparkles, count, time) ==
    [twinkles |->
        [n \in 1..(unrolled_chunks(count) * 2 * SIMD_BATCH_SIZE) |->
            IF (n - 1) % (2 * SIMD_BATCH_SIZE) < SIMD_BATCH_SIZE
            THEN effects_unrolled_chunk1(positions_x, positions_y,
                     (n - 1) \div (2 * SIMD_BATCH_SIZE), time)
                         .twinkle_array[((n - 1) % SIMD_BATCH_SIZE) + 1]
            ELSE effects_unrolled_chunk2(positions_x, positions_y,
                     (n - 1) \div (2 * SIMD_BATCH_SIZE), time)
                         .twinkle_array[((n - 1) % SIMD_BATCH_SIZE) + 1]]
        \o [n \in 1..(remaining_chunks(count) * SIMD_BATCH_SIZE) |->
            effects_remaining_chunk(positions_x, positions_y,
                unrolled_chunks(count) * 2 + ((n - 1) \div SIMD_BATCH_SIZE),
                time).twinkle_array[((n - 1) % SIMD_BATCH_SIZE) + 1]]
        \o [n \in 1..(count - (count \div SIMD_BATCH_SIZE)
                                  * SIMD_BATCH_SIZE) |->
            effects_scalar(
                positions_x[(count \div SIMD_BATCH_SIZE) * SIMD_BATCH_SIZE + n],
                positions_y[(count \div SIMD_BATCH_SIZE) * SIMD_BATCH_SIZE + n],
                time).twinkle]
        \o SubSeq(twinkles, count + 1, Len(twinkles)),
     sparkles |->
        [n \in 1..(unrolled_chunks(count) * 2 * SIMD_BATCH_SIZE) |->
            IF (n - 1) % (2 * SIMD_BATCH_SIZE) < SIMD_BATCH_SIZE
            THEN effects_unrolled_chunk1(positions_x, positions_y,
                     (n - 1) \div (2 * SIMD_BATCH_SIZE), time)
                         .sparkle_array[((n - 1) % SIMD_BATCH_SIZE) + 1]
            ELSE effects_unrolled_chunk2(positions_x, positions_y,
                     (n - 1) \div (2 * SIMD_BATCH_SIZE), time)
                         .sparkle_array[((n - 1) % SIMD_BATCH_SIZE) + 1]]
        \o [n \in 1..(remaining_chunks(count) * SIMD_BATCH_SIZE) |->
            effects_remaining_chunk(positions_x, positions_y,
                unrolled_chunks(count) * 2 + ((n - 1) \div SIMD_BATCH_SIZE),
                time).sparkle_array[((n - 1) % SIMD_BATCH_SIZE) + 1]]
        \o [n \in 1..(count - (count \div SIMD_BATCH_SIZE)
                                  * SIMD_BATCH_SIZE) |->
            effects_scalar(
                positions_x[(count \div SIMD_BATCH_SIZE) * SIMD_BATCH_SIZE + n],
                positions_y[(count \div SIMD_BATCH_SIZE) * SIMD_BATCH_SIZE + n],
                time).sparkle]
        \o SubSeq(sparkles, count + 1, Len(sparkles)),
     written |-> effects_writes(count)]

\* ------------------------------------------------------------------------
\* bounds of the model
\* ------------------------------------------------------------------------

\* largest number of full 16-star chunks in a star count the host asks for
MaxChunks == 3

\* number of pools the host creates in one run
MaxPools == 3

\* number of frames after the first the host can ask for
MaxTicks == 1

\* sizes of the scalar remainder the host's star counts leave: none, the
\* shortest, the longest
Remainders == {0, 1, SIMD_BATCH_SIZE - 1}

\* the star counts the host asks for
Counts == {SIMD_BATCH_SIZE * q + r : q \in 0..MaxChunks, r \in Remainders}

\* the time the host passes with frame tick: 1.337 s per frame
FrameTime(tick) == FMul(F32(tick), Dec(1, 3370))

\* serial numbers the heap can give the first buffer of a pool
AllocBases == {Len(BufferNames) * k : k \in 0..(MaxPools - 1)}

\* ------------------------------------------------------------------------
\* star_field.rs: entry points on the persistent pool
\* ------------------------------------------------------------------------

\* the pool after the generation stage: the arrays the three generation
\* calls return are those of the pool (they are written through &mut
\* borrows), then the twinkle loop runs over 0 .. count - 1; with it, the
\* slots each of them wrote
store_generated(pool, count, positions, colors, star_sizes) ==
    [pool |->
        [pool EXCEPT
            !.positions_x = positions.positions_x,
            !.positions_y = positions.positions_y,
            !.positions_z = positions.positions_z,
            !.colors_r = colors.colors_r,
            !.colors_g = colors.colors_g,
            !.colors_b = colors.colors_b,
            !.sizes = star_sizes.sizes,
            !.twinkles =
                [n \in 1..count |->
                    FAdd(Dec(0, 8000),
                         FMul(seed_random((n - 1) + 7000), Dec(0, 2000)))]
                \o SubSeq(pool.twinkles, count + 1, Len(pool.twinkles))],
     writes |->
        [positions |-> positions.written,
         colors |-> colors.written,
         sizes |-> star_sizes.written,
         twinkles |-> [n \in 1..count |-> n - 1],
         effects |-> << >>,
         time |-> F32(0)]]

\* a generation whose inner radius depends on where the pool lies
generate_into_pool_by_address(pool, count) ==
    store_generated(pool, count,
        generate_star_positions_simd_direct(
            pool.positions_x, pool.positions_y, pool.positions_z,
            count, FAdd(Dec(20, 0), F32(pool.ptr[1])), Dec(150, 0)),
        generate_star_colors_simd_direct(
            pool.colors_r, pool.colors_g, pool.colors_b, count),
        generate_star_sizes_simd_direct(pool.sizes, count, Dec(1, 0)))

\* the generation calls of initialize_star_memory_pool on the fresh pool:
\* positions between the radii 20.0 and 150.0, colors, sizes with the
\* multiplier 1.0
generate_into_pool(pool, count) ==
    store_generated(pool, count,
        generate_star_positions_simd_direct(
            pool.positions_x, pool.positions_y, pool.positions_z,
            count, Dec(20, 0), Dec(150, 0)),
        generate_star_colors_simd_direct(
            pool.colors_r, pool.colors_g, pool.colors_b, count),
        generate_star_sizes_simd_direct(pool.sizes, count, Dec(1, 0)))

\* the body of initialize_star_memory_pool up to get_pointers
build_star_pool(count, base) ==
    generate_into_pool(StarMemoryPool_new(count, base), count)

\* build_star_pool, evaluated once for every count and heap position
built_pools == [c \in Counts, b \in AllocBases |-> build_star_pool(c, b)]

\* initialize_star_memory_pool(count): build a pool, hand its pointers to
\* the host, store it in STAR_MEMORY_POOL (dropping the previous pool)
initialize_star_memory_pool(count) ==
    /\ next_alloc \in AllocBases
    /\ STAR_MEMORY_POOL' = <<built_pools[count, next_alloc].pool>>
    /\ pointers' = <<get_pointers(built_pools[count, next_alloc].pool)>>
    /\ writes' = built_pools[count, next_alloc].writes
    /\ next_alloc' = next_alloc + Len(BufferNames)
    /\ sin_table_built' = (sin_table_built \/ count >= SIMD_BATCH_SIZE)
    /\ frame_result' = << >>
    /\ UNCHANGED <<host_copy, call, spatial_grid,
                    other_systems>>

\* a frame update that writes the twinkles over the sizes as well
write_effects_and_sizes(pool, effects) ==
    [pool EXCEPT !.twinkles = effects.twinkles,
                 !.sparkles = effects.sparkles,
                 !.sizes = effects.twinkles]

\* a frame update that leaves the sparkles of the frame before
write_effects_twinkles_only(pool, effects) ==
    [pool EXCEPT !.twinkles = effects.twinkles]

\* a frame update that moves the twinkles to a new allocation
write_effects_reallocating(pool, effects) ==
    [pool EXCEPT !.twinkles = effects.twinkles,
                 !.sparkles = effects.sparkles,
                 !.ptr = [@ EXCEPT ![8] = @ + 1000]]

\* the pool after step 2 of update_frame_simd: the twinkles and sparkles
\* calculate_effects_into_buffers_simd returns are those of the pool (it
\* writes them in place through &mut borrows)
write_effects(pool, effects) ==
    [pool EXCEPT !.twinkles = effects.twinkles,
                 !.sparkles = effects.sparkles]

\* a frame update that culls when a camera matrix is passed: it clears the
\* mask and reports no visible star
update_frame_of_pool_culling(pool, effects, time, camera_matrix_ptr) ==
    /\ STAR_MEMORY_POOL' =
           <<[write_effects(pool, effects) EXCEPT !.visibility_mask =
                 IF camera_matrix_ptr # 0
                 THEN [w \in 1..Len(pool.visibility_mask) |-> {}]
                 ELSE pool.visibility_mask]>>
    /\ writes' = [writes EXCEPT !.effects = effects.written,
                                !.time = time]
    /\ frame_result' =
           <<[visible_count |->
                  IF camera_matrix_ptr # 0 THEN 0 ELSE pool.count,
              positions_dirty |-> TRUE,
              effects_dirty |-> TRUE,
              culling_dirty |-> camera_matrix_ptr # 0]>>
    /\ sin_table_built' = (sin_table_built \/ pool.count > 0)
    /\ UNCHANGED <<next_alloc, pointers, host_copy, call, spatial_grid,
                    other_systems>>

\* the branch of update_frame_simd on an initialized pool; effects is the
\* outcome of step 2 for the frame time, the speed multiplier of step 1 is
\* computed and dropped, step 3 culls nothing and counts every star as
\* visible
update_frame_of_pool(pool, effects, time, camera_matrix_ptr) ==
    /\ STAR_MEMORY_POOL' = <<write_effects(pool, effects)>>
    /\ writes' = [writes EXCEPT !.effects = effects.written,
                                !.time = time]
    /\ frame_result' =
           <<[visible_count |->
                  IF camera_matrix_ptr # 0 THEN pool.count ELSE pool.count,
              positions_dirty |-> TRUE,
              effects_dirty |-> TRUE,
              culling_dirty |-> FALSE]>>
    /\ sin_table_built' = (sin_table_built \/ pool.count > 0)
    /\ UNCHANGED <<next_alloc, pointers, host_copy, call, spatial_grid,
                    other_systems>>

\* an update_frame_simd that, without a pool, stores an empty one
update_frame_simd_creating(time, delta_time, camera_matrix_ptr, is_moving, click_time, current_speed_multiplier) ==
    IF Len(STAR_MEMORY_POOL) = 1
    THEN update_frame_of_pool(
             STAR_MEMORY_POOL[1],
             calculate_effects_into_buffers_simd(
                 STAR_MEMORY_POOL[1].positions_x,
                 STAR_MEMORY_POOL[1].positions_y,
                 STAR_MEMORY_POOL[1].twinkles,
                 STAR_MEMORY_POOL[1].sparkles,
                 STAR_MEMORY_POOL[1].count, time),
             time, camera_matrix_ptr)
    ELSE /\ STAR_MEMORY_POOL' = <<StarMemoryPool_new(0, next_alloc)>>
         /\ frame_result' = <<[visible_count |-> 0,
                               positions_dirty |-> FALSE,
                               effects_dirty |-> FALSE,
                               culling_dirty |-> FALSE]>>
         /\ UNCHANGED <<sin_table_built, next_alloc, pointers, host_copy,
                        writes, call, spatial_grid,
                    other_systems>>

\* update_frame_simd: recompute twinkles and sparkles in place; without a
\* pool, report zero visible stars and nothing dirty
update_frame_simd(time, delta_time, camera_matrix_ptr, is_moving, click_time, current_speed_multiplier) ==
    IF Len(STAR_MEMORY_POOL) = 1
    THEN update_frame_of_pool(
             STAR_MEMORY_POOL[1],
             calculate_effects_into_buffers_simd(
                 STAR_MEMORY_POOL[1].positions_x,
                 STAR_MEMORY_POOL[1].positions_y,
                 STAR_MEMORY_POOL[1].twinkles,
                 STAR_MEMORY_POOL[1].sparkles,
                 STAR_MEMORY_POOL[1].count, time),
             time, camera_matrix_ptr)
    ELSE /\ frame_result' = <<[visible_count |-> 0,
                               positions_dirty |-> FALSE,
                               effects_dirty |-> FALSE,
                               culling_dirty |-> FALSE]>>
         /\ UNCHANGED <<STAR_MEMORY_POOL, sin_table_built, next_alloc,
                        pointers, host_copy, writes, call, spatial_grid,
                    other_systems>>

\* the host reads the generated buffers through the pointers it holds and
\* keeps a copy of them
host_read_buffers ==
    /\ Len(STAR_MEMORY_POOL) = 1
    /\ Len(pointers) = 1
    /\ host_copy' = <<[positions_x_ptr |-> pointers[1].positions_x_ptr,
                       count |-> pointers[1].count,
                       positions_x |-> STAR_MEMORY_POOL[1].positions_x,
                       positions_y |-> STAR_MEMORY_POOL[1].positions_y,
                       positions_z |-> STAR_MEMORY_POOL[1].positions_z,
                       colors_r |-> STAR_MEMORY_POOL[1].colors_r,
                       colors_g |-> STAR_MEMORY_POOL[1].colors_g,
                       colors_b |-> STAR_MEMORY_POOL[1].colors_b,
                       sizes |-> STAR_MEMORY_POOL[1].sizes]>>
    /\ UNCHANGED <<STAR_MEMORY_POOL, sin_table_built, next_alloc, pointers,
                   frame_result, writes, call, spatial_grid,
                    other_systems>>

NoWrites ==
    [positions |-> << >>, colors |-> << >>, sizes |-> << >>,
     twinkles |-> << >>, effects |-> << >>, time |-> F32(0)]

Init ==
    /\ STAR_MEMORY_POOL = << >>
    /\ sin_table_built = FALSE
    /\ next_alloc = 0
    /\ pointers = << >>
    /\ frame_result = << >>
    /\ host_copy = << >>
    /\ writes = NoWrites
    /\ spatial_grid = << >>
    /\ NoOtherSystems
    /\ call = << >>

Initialize == \E count \in Counts : initialize_star_memory_pool(count)

\* the host asks for a frame: every other frame the camera moves and a
\* camera matrix is passed
UpdateFrame ==
    \E tick \in 0..MaxTicks :
        update_frame_simd(FrameTime(tick), Dec(0, 160), tick % 2,
                          tick % 2 = 1, F32(0), Dec(1, 0))

HostRead == host_read_buffers

Next == Initialize \/ UpdateFrame \/ HostRead

Spec == Init /\ [][Next]_vars

\* ------------------------------------------------------------------------
\* star_field.rs: bitpacked visibility and frustum culling
\* ------------------------------------------------------------------------

\* a helper that stores the bit as the whole word
set_visibility_bit_whole_word(visibility_mask, star_index, visible) ==
    IF star_index \div WORD_BITS < Len(visibility_mask)
    THEN [visibility_mask EXCEPT ![(star_index \div WORD_BITS) + 1] =
             IF visible THEN {star_index % WORD_BITS} ELSE {}]
    ELSE visibility_mask

\* set_visibility_bit: set or clear bit star_index % 64 of word
\* star_index / 64; nothing happens beyond the last word
set_visibility_bit(visibility_mask, star_index, visible) ==
    IF star_index \div WORD_BITS < Len(visibility_mask)
    THEN [visibility_mask EXCEPT ![(star_index \div WORD_BITS) + 1] =
             IF visible THEN @ \cup {star_index % WORD_BITS}
             ELSE @ \ {star_index % WORD_BITS}]
    ELSE visibility_mask

RECURSIVE set_visibility_bits_from(_, _, _, _)
\* iterations i .. 7 of the loop of set_visibility_bits_simd; visibility_bits
\* is the u8, as the set of its set bits
set_visibility_bits_from(visibility_mask, start_index, visibility_bits, i) ==
    IF i >= 8 THEN visibility_mask
    ELSE set_visibility_bits_from(
             set_visibility_bit(visibility_mask, start_index + i,
                                i \in visibility_bits),
             start_index, visibility_bits, i + 1)

\* set_visibility_bits_simd: 8 consecutive bits from start_index
set_visibility_bits_simd(visibility_mask, start_index, visibility_bits) ==
    set_visibility_bits_from(visibility_mask, start_index, visibility_bits, 0)

\* extract_frustum_planes: left, right, bottom, top, near, far (the same
\* table is written out in cull_stars_by_frustum_bitpacked and in
\* cull_stars_by_frustum_simd); m[i] of the code is m[i + 1] here
extract_frustum_planes(m) ==
    <<<<FAdd(m[4], m[1]), FAdd(m[8], m[5]), FAdd(m[12], m[9]),
        FAdd(m[16], m[13])>>,
      <<FSub(m[4], m[1]), FSub(m[8], m[5]), FSub(m[12], m[9]),
        FSub(m[16], m[13])>>,
      <<FAdd(m[4], m[2]), FAdd(m[8], m[6]), FAdd(m[12], m[10]),
        FAdd(m[16], m[14])>>,
      <<FSub(m[4], m[2]), FSub(m[8], m[6]), FSub(m[12], m[10]),
        FSub(m[16], m[14])>>,
      <<FAdd(m[4], m[3]), FAdd(m[8], m[7]), FAdd(m[12], m[11]),
        FAdd(m[16], m[15])>>,
      <<FSub(m[4], m[3]), FSub(m[8], m[7]), FSub(m[12], m[11]),
        FSub(m[16], m[15])>>>>

\* length of the normal of a plane
plane_length(plane) ==
    F32Sqrt(FAdd(FAdd(FMul(plane[1], plane[1]), FMul(plane[2], plane[2])),
                 FMul(plane[3], plane[3])))

\* normalize_plane: divide by the length of the normal; a plane whose
\* length is not > 0.0 is left as it is
normalize_plane(plane) ==
    IF FGt(plane_length(plane), F32(0))
    THEN <<FDiv(plane[1], plane_length(plane)),
           FDiv(plane[2], plane_length(plane)),
           FDiv(plane[3], plane_length(plane)),
           FDiv(plane[4], plane_length(plane))>>
    ELSE plane

\* one entry of normalized_planes as cull_stars_by_frustum_bitpacked and
\* cull_stars_by_frustum_simd fill it: a plane whose length is not > 0.0
\* keeps the initial [0.0; 4]
normalized_or_zero(plane) ==
    IF FGt(plane_length(plane), F32(0))
    THEN <<FDiv(plane[1], plane_length(plane)),
           FDiv(plane[2], plane_length(plane)),
           FDiv(plane[3], plane_length(plane)),
           FDiv(plane[4], plane_length(plane))>>
    ELSE <<F32(0), F32(0), F32(0), F32(0)>>

\* normalized_planes of the two mask-returning culling functions
normalized_planes(camera_matrix) ==
    <<normalized_or_zero(extract_frustum_planes(camera_matrix)[1]),
      normalized_or_zero(extract_frustum_planes(camera_matrix)[2]),
      normalized_or_zero(extract_frustum_planes(camera_matrix)[3]),
      normalized_or_zero(extract_frustum_planes(camera_matrix)[4]),
      normalized_or_zero(extract_frustum_planes(camera_matrix)[5]),
      normalized_or_zero(extract_frustum_planes(camera_matrix)[6])>>

\* normalized_planes of get_visible_star_indices: normalize_plane on each
\* extracted plane
normalized_planes_in_place(camera_matrix) ==
    <<normalize_plane(extract_frustum_planes(camera_matrix)[1]),
      normalize_plane(extract_frustum_planes(camera_matrix)[2]),
      normalize_plane(extract_frustum_planes(camera_matrix)[3]),
      normalize_plane(extract_frustum_planes(camera_matrix)[4]),
      normalize_plane(extract_frustum_planes(camera_matrix)[5]),
      normalize_plane(extract_frustum_planes(camera_matrix)[6])>>

\* distances of the 8-wide batch: x * normal_x + y * normal_y + z * normal_z
\* + plane_distance, for one lane
distances(plane, star_x, star_y, star_z) ==
    FAdd(FAdd(FAdd(FMul(star_x, plane[1]), FMul(star_y, plane[2])),
              FMul(star_z, plane[3])),
         plane[4])

\* distance of the scalar loops and of the 16-wide batch:
\* plane[0] * x + plane[1] * y + plane[2] * z + plane[3]
plane_distance(plane, star_x, star_y, star_z) ==
    FAdd(FAdd(FAdd(FMul(plane[1], star_x), FMul(plane[2], star_y)),
              FMul(plane[3], star_z)),
         plane[4])

\* visibility_bits of the batch at base_idx: lane i is set iff
\* distances.simd_ge(neg_margin) holds for each of the six planes
visibility_bits(positions, planes, base_idx, margin) ==
    {i \in 0..(BITPACK_BATCH_SIZE - 1) :
        \A p \in 1..6 :
            FGe(distances(planes[p], positions[(base_idx + i) * 3 + 1],
                          positions[(base_idx + i) * 3 + 2],
                          positions[(base_idx + i) * 3 + 3]),
                FNeg(margin))}

\* inside of the scalar loops, for star i: it stays true unless some plane
\* has distance < -margin
inside(positions, planes, i, margin) ==
    ~\E p \in 1..6 :
        FLt(plane_distance(planes[p], positions[i * 3 + 1],
                           positions[i * 3 + 2], positions[i * 3 + 3]),
            FNeg(margin))

RECURSIVE bitpacked_batches(_, _, _, _, _, _)
\* iterations chunk .. chunks - 1 of the 8-wide loop of
\* cull_stars_by_frustum_bitpacked
bitpacked_batches(visibility_mask, positions, planes, margin, chunk, chunks) ==
    IF chunk >= chunks THEN visibility_mask
    ELSE bitpacked_batches(
             set_visibility_bits_simd(visibility_mask,
                 chunk * BITPACK_BATCH_SIZE,
                 visibility_bits(positions, planes,
                                 chunk * BITPACK_BATCH_SIZE, margin)),
             positions, planes, margin, chunk + 1, chunks)

RECURSIVE bitpacked_remaining(_, _, _, _, _, _)
\* iterations i .. count - 1 of the scalar loop of
\* cull_stars_by_frustum_bitpacked
bitpacked_remaining(visibility_mask, positions, planes, margin, i, count) ==
    IF i >= count THEN visibility_mask
    ELSE bitpacked_remaining(
             set_visibility_bit(visibility_mask, i,
                                inside(positions, planes, i, margin)),
             positions, planes, margin, i + 1, count)

\* the outcome of a culling call: the returned vector, or a panic on an
\* index out of bounds; with it, how many elements of positions were read
Returned(value, positions_read) ==
    [panicked |-> FALSE, value |-> value, positions_read |-> positions_read]

Panicked(positions_read) ==
    [panicked |-> TRUE, value |-> << >>, positions_read |-> positions_read]

\* cull_stars_by_frustum_bitpacked past the length test: m[15] and every
\* positions[i3 + 2] with i < count are bounds-checked reads
bitpacked_culling(positions, count, camera_matrix, margin) ==
    IF Len(camera_matrix) < 16 THEN Panicked(0)
    ELSE IF count * 3 > Len(positions) THEN Panicked(Len(positions))
    ELSE Returned(
             bitpacked_remaining(
                 bitpacked_batches(
                     [w \in 1..DivCeil(count, WORD_BITS) |-> {}],
                     positions, normalized_planes(camera_matrix), margin,
                     0, count \div BITPACK_BATCH_SIZE),
                 positions, normalized_planes(camera_matrix), margin,
                 (count \div BITPACK_BATCH_SIZE) * BITPACK_BATCH_SIZE, count),
             count * 3)

\* cull_stars_by_frustum_bitpacked
cull_stars_by_frustum_bitpacked(positions, count, camera_matrix, margin) ==
    IF Len(camera_matrix) # 16
    THEN Returned([w \in 1..DivCeil(count, WORD_BITS) |-> U64_MAX], 0)
    ELSE bitpacked_culling(positions, count, camera_matrix, margin)

\* inside_arr[i] of the 16-wide batch of cull_stars_by_frustum_simd: the
\* product, over the planes, of 0.0 where distance < -margin and 1.0
\* elsewhere
inside_arr(positions, planes, i, margin) ==
    IF \E p \in 1..6 :
           FLt(plane_distance(planes[p], positions[i * 3 + 1],
                              positions[i * 3 + 2], positions[i * 3 + 3]),
               FNeg(margin))
    THEN F32(0)
    ELSE F32(1)

\* cull_stars_by_frustum_simd past the length test: one byte per star,
\* the 16-wide batches first, the remaining stars after them
simd_culling(positions, count, camera_matrix, margin) ==
    IF Len(camera_matrix) < 16 THEN Panicked(0)
    ELSE IF count * 3 > Len(positions) THEN Panicked(Len(positions))
    ELSE Returned(
             [n \in 1..((count \div 16) * 16) |->
                 IF FGt(inside_arr(positions,
                                   normalized_planes(camera_matrix),
                                   n - 1, margin),
                        Dec(0, 5000))
                 THEN 1 ELSE 0]
             \o [n \in 1..(count - (count \div 16) * 16) |->
                 IF inside(positions, normalized_planes(camera_matrix),
                           (count \div 16) * 16 + (n - 1), margin)
                 THEN 1 ELSE 0],
             count * 3)

\* a byte-per-star culling without the test of the matrix length
cull_simd_unchecked(positions, count, camera_matrix, margin) ==
    simd_culling(positions, count, camera_matrix, margin)

\* cull_stars_by_frustum_simd
cull_stars_by_frustum_simd(positions, count, camera_matrix, margin) ==
    IF Len(camera_matrix) # 16
    THEN Returned([n \in 1..count |-> 1], 0)
    ELSE simd_culling(positions, count, camera_matrix, margin)

RECURSIVE visible_indices(_, _, _, _, _)
\* visible_indices after iterations i .. count - 1 of the loop of
\* get_visible_star_indices
visible_indices(positions, planes, margin, i, count) ==
    IF i >= count THEN << >>
    ELSE IF inside(positions, planes, i, margin)
         THEN <<i>> \o visible_indices(positions, planes, margin, i + 1,
                                       count)
         ELSE visible_indices(positions, planes, margin, i + 1, count)

\* get_visible_star_indices past the length test
indices_culling(positions, count, camera_matrix, margin) ==
    IF Len(camera_matrix) < 16 THEN Panicked(0)
    ELSE IF count * 3 > Len(positions) THEN Panicked(Len(positions))
    ELSE Returned(
             visible_indices(positions,
                             normalized_planes_in_place(camera_matrix),
                             margin, 0, count),
             count * 3)

\* get_visible_star_indices
get_visible_star_indices(positions, count, camera_matrix, margin) ==
    IF Len(camera_matrix) # 16
    THEN Returned([n \in 1..count |-> n - 1], 0)
    ELSE indices_culling(positions, count, camera_matrix, margin)


\* ------------------------------------------------------------------------
\* math.rs: calls of the seeded generator
\* ------------------------------------------------------------------------

\* largest start index of a generator call
MaxSeedStart == 60

\* a requested call of one of the three generator functions
SeedCalls(starts) ==
    {[fn |-> "seed_random", start |-> s, count |-> 1,
      returned |-> FALSE, result |-> << >>] : s \in starts}
    \cup {[fn |-> "seed_random_batch", start |-> s, count |-> n,
           returned |-> FALSE, result |-> << >>] :
              s \in starts, n \in {1, SIMD_BATCH_SIZE}}
    \cup {[fn |-> "seed_random_simd_batch_16", start |-> s,
           count |-> SIMD_BATCH_SIZE,
           returned |-> FALSE, result |-> << >>] : s \in starts}

InitRandom ==
    /\ STAR_MEMORY_POOL = << >>
    /\ sin_table_built = FALSE
    /\ next_alloc = 0
    /\ pointers = << >>
    /\ frame_result = << >>
    /\ host_copy = << >>
    /\ writes = NoWrites
    /\ spatial_grid = << >>
    /\ NoOtherSystems
    /\ call \in {<<c>> : c \in SeedCalls(0..MaxSeedStart)}

\* the requested call is one of fn and has not returned
Requested(fn) ==
    /\ Len(call) = 1
    /\ call[1].fn = fn
    /\ ~call[1].returned

CallSeedRandom ==
    /\ Requested("seed_random")
    /\ call' = <<[call[1] EXCEPT !.returned = TRUE,
                                 !.result = <<seed_random(call[1].start)>>]>>
    /\ UNCHANGED <<STAR_MEMORY_POOL, sin_table_built, next_alloc, pointers,
                   frame_result, host_copy, writes, spatial_grid,
                    other_systems>>

CallSeedRandomBatch ==
    /\ Requested("seed_random_batch")
    /\ call' = <<[call[1] EXCEPT
                     !.returned = TRUE,
                     !.result = seed_random_batch(call[1].start,
                                                  call[1].count)]>>
    /\ UNCHANGED <<STAR_MEMORY_POOL, sin_table_built, next_alloc, pointers,
                   frame_result, host_copy, writes, spatial_grid,
                    other_systems>>

\* seed_random_simd_batch_16 builds the sine table on its way
CallSeedRandomSimd ==
    /\ Requested("seed_random_simd_batch_16")
    /\ call' = <<[call[1] EXCEPT
                     !.returned = TRUE,
                     !.result = seed_random_simd_batch_16(call[1].start)]>>
    /\ sin_table_built' = TRUE
    /\ UNCHANGED <<STAR_MEMORY_POOL, next_alloc, pointers, frame_result,
                   host_copy, writes, spatial_grid,
                    other_systems>>

NextRandom == CallSeedRandom \/ CallSeedRandomBatch \/ CallSeedRandomSimd

SpecRandom == InitRandom /\ [][NextRandom]_vars

\* ------------------------------------------------------------------------
\* star_field.rs: calls of the culling entry points
\* ------------------------------------------------------------------------

\* largest number of full 8-star batches in the count of a culling call
MaxCullChunks == 2

\* star counts of a culling call: whole batches, and one star more
CullCounts ==
    {BITPACK_BATCH_SIZE * q + r : q \in 0..MaxCullChunks, r \in {0, 1}}

\* star positions: the origin, a point beyond the right plane, a point
\* just beyond it, a point with a NaN coordinate
StarPoints ==
    [origin |-> <<F32(0), F32(0), F32(0)>>,
     outside |-> <<F32(3), F32(0), F32(0)>>,
     margin |-> <<Dec(1, 2000), F32(0), F32(0)>>,
     nan |-> <<NaN, F32(0), F32(0)>>]

\* count stars at the point base, but for the star at index special, which
\* is at the point other
star_positions(count, base, other, special) ==
    [n \in 1..(count * 3) |->
        IF (n - 1) \div 3 = special
        THEN StarPoints[other][((n - 1) % 3) + 1]
        ELSE StarPoints[base][((n - 1) % 3) + 1]]

\* the positions slices of the culling calls; a short one holds one element
\* less than three per star
CullPositions(count) ==
    {SubSeq(star_positions(count, base, other, special), 1,
            count * 3 - short) :
        base \in {"origin", "outside"},
        other \in DOMAIN StarPoints,
        special \in {0, count - 1},
        short \in {0, IF count > 0 THEN 1 ELSE 0}}

\* diagonal 4 x 4 matrix with the diagonal d, d, d, w
Diagonal(d, w) ==
    <<d, F32(0), F32(0), F32(0),
      F32(0), d, F32(0), F32(0),
      F32(0), F32(0), d, F32(0),
      F32(0), F32(0), F32(0), w>>

\* the view-projection matrices of the culling calls: the unit cube, a
\* cube of half the size, a matrix whose planes have no normal; and slices
\* of other lengths
CameraMatrices ==
    {Diagonal(F32(1), F32(1)),
     Diagonal(F32(2), F32(1)),
     Diagonal(F32(0), F32(0 - 1)),
     << >>,
     SubSeq(Diagonal(F32(1), F32(1)), 1, 15),
     Diagonal(F32(1), F32(1)) \o <<F32(0)>>}

\* the margins of the culling calls
Margins == {F32(0), Dec(0, 5000)}

CullFunctions ==
    {"cull_stars_by_frustum_bitpacked", "cull_stars_by_frustum_simd",
     "get_visible_star_indices"}

\* a requested call of one of the three culling entry points
CullCalls(counts) ==
    UNION {{[fn |-> f, positions |-> ps, count |-> n, camera_matrix |-> m,
             margin |-> g, returned |-> FALSE, outcome |-> Panicked(0)] :
               f \in CullFunctions, ps \in CullPositions(n),
               m \in CameraMatrices, g \in Margins} :
           n \in counts}

InitCull ==
    /\ STAR_MEMORY_POOL = << >>
    /\ sin_table_built = FALSE
    /\ next_alloc = 0
    /\ pointers = << >>
    /\ frame_result = << >>
    /\ host_copy = << >>
    /\ writes = NoWrites
    /\ spatial_grid = << >>
    /\ NoOtherSystems
    /\ call \in {<<c>> : c \in CullCalls(CullCounts)}

CallCullBitpacked ==
    /\ Requested("cull_stars_by_frustum_bitpacked")
    /\ call' = <<[call[1] EXCEPT
                     !.returned = TRUE,
                     !.outcome = cull_stars_by_frustum_bitpacked(
                                     call[1].positions, call[1].count,
                                     call[1].camera_matrix,
                                     call[1].margin)]>>
    /\ UNCHANGED <<STAR_MEMORY_POOL, sin_table_built, next_alloc, pointers,
                   frame_result, host_copy, writes, spatial_grid,
                    other_systems>>

CallCullSimd ==
    /\ Requested("cull_stars_by_frustum_simd")
    /\ call' = <<[call[1] EXCEPT
                     !.returned = TRUE,
                     !.outcome = cull_stars_by_frustum_simd(
                                     call[1].positions, call[1].count,
                                     call[1].camera_matrix,
                                     call[1].margin)]>>
    /\ UNCHANGED <<STAR_MEMORY_POOL, sin_table_built, next_alloc, pointers,
                   frame_result, host_copy, writes, spatial_grid,
                    other_systems>>

CallVisibleIndices ==
    /\ Requested("get_visible_star_indices")
    /\ call' = <<[call[1] EXCEPT
                     !.returned = TRUE,
                     !.outcome = get_visible_star_indices(
                                     call[1].positions, call[1].count,
                                     call[1].camera_matrix,
                                     call[1].margin)]>>
    /\ UNCHANGED <<STAR_MEMORY_POOL, sin_table_built, next_alloc, pointers,
                   frame_result, host_copy, writes, spatial_grid,
                    other_systems>>

NextCull == CallCullBitpacked \/ CallCullSimd \/ CallVisibleIndices

SpecCull == InitCull /\ [][NextCull]_vars


\* ------------------------------------------------------------------------
\* star_field.rs: calls of the visibility bit helpers
\* ------------------------------------------------------------------------

\* largest number of words of a visibility mask
MaxMaskWords == 2

\* words of a mask before a call: all clear, all set, some set
MaskWords == {{}, U64_MAX, {0, 5, WORD_BITS - 2}}

\* the masks of at most MaxMaskWords words
Masks ==
    UNION {[1..n -> MaskWords] : n \in 0..MaxMaskWords}

\* the u8 arguments of set_visibility_bits_simd, as sets of their set bits
BitPatterns == {{}, 0..7, {0, 7}, {1, 2, 4}}

\* a requested call of one of the two helpers: every star index up to one
\* word beyond the longest mask; batches at the multiples of 8 and at an
\* index that is not one
MaskCalls(masks) ==
    {[fn |-> "set_visibility_bit", visibility_mask |-> vm, star_index |-> k,
      visible |-> v, visibility_bits |-> {}, returned |-> FALSE,
      result |-> vm] :
        vm \in masks, k \in 0..((MaxMaskWords + 1) * WORD_BITS - 1),
        v \in BOOLEAN}
    \cup {[fn |-> "set_visibility_bits_simd", visibility_mask |-> vm,
           star_index |-> k, visible |-> FALSE, visibility_bits |-> bits,
           returned |-> FALSE, result |-> vm] :
             vm \in masks,
             k \in {8 * j : j \in 0..((MaxMaskWords + 1) * 8 - 1)}
                       \cup {WORD_BITS - 4},
             bits \in BitPatterns}

InitMask ==
    /\ STAR_MEMORY_POOL = << >>
    /\ sin_table_built = FALSE
    /\ next_alloc = 0
    /\ pointers = << >>
    /\ frame_result = << >>
    /\ host_copy = << >>
    /\ writes = NoWrites
    /\ spatial_grid = << >>
    /\ NoOtherSystems
    /\ call \in {<<c>> : c \in MaskCalls(Masks)}

CallSetVisibilityBit ==
    /\ Requested("set_visibility_bit")
    /\ call' = <<[call[1] EXCEPT
                     !.returned = TRUE,
                     !.result = set_visibility_bit(call[1].visibility_mask,
                                                   call[1].star_index,
                                                   call[1].visible)]>>
    /\ UNCHANGED <<STAR_MEMORY_POOL, sin_table_built, next_alloc, pointers,
                   frame_result, host_copy, writes, spatial_grid,
                    other_systems>>

CallSetVisibilityBitsSimd ==
    /\ Requested("set_visibility_bits_simd")
    /\ call' = <<[call[1] EXCEPT
                     !.returned = TRUE,
                     !.result = set_visibility_bits_simd(
                                    call[1].visibility_mask,
                                    call[1].star_index,
                                    call[1].visibility_bits)]>>
    /\ UNCHANGED <<STAR_MEMORY_POOL, sin_table_built, next_alloc, pointers,
                   frame_result, host_copy, writes, spatial_grid,
                    other_systems>>

NextMask == CallSetVisibilityBit \/ CallSetVisibilityBitsSimd

SpecMask == InitMask /\ [][NextMask]_vars

\* ------------------------------------------------------------------------
\* star_field.rs: the color selection of one star
\* ------------------------------------------------------------------------

\* the color draws: every value of [0, 1] at the resolution, and NaN
ColorDraws == (0..SCALE) \cup {NaN}

\* a requested color selection for one draw, by the mask selects of the
\* batch path or by the if-chain of the scalar path
ColorCalls(draws) ==
    {[fn |-> f, color_choice |-> u, returned |-> FALSE,
      result |-> << >>] :
        f \in {"colors_simd_lane", "colors_scalar_choice"},
        u \in draws}

InitColor ==
    /\ STAR_MEMORY_POOL = << >>
    /\ sin_table_built = FALSE
    /\ next_alloc = 0
    /\ pointers = << >>
    /\ frame_result = << >>
    /\ host_copy = << >>
    /\ writes = NoWrites
    /\ spatial_grid = << >>
    /\ NoOtherSystems
    /\ call \in {<<c>> : c \in ColorCalls(ColorDraws)}

CallColorsSimdLane ==
    /\ Requested("colors_simd_lane")
    /\ call' = <<[call[1] EXCEPT
                     !.returned = TRUE,
                     !.result = colors_simd_lane(call[1].color_choice)]>>
    /\ UNCHANGED <<STAR_MEMORY_POOL, sin_table_built, next_alloc, pointers,
                   frame_result, host_copy, writes, spatial_grid,
                    other_systems>>

CallColorsScalar ==
    /\ Requested("colors_scalar_choice")
    /\ call' = <<[call[1] EXCEPT
                     !.returned = TRUE,
                     !.result = colors_scalar_choice(call[1].color_choice)]>>
    /\ UNCHANGED <<STAR_MEMORY_POOL, sin_table_built, next_alloc, pointers,
                   frame_result, host_copy, writes, spatial_grid,
                    other_systems>>

NextColor == CallColorsSimdLane \/ CallColorsScalar

SpecColor == InitColor /\ [][NextColor]_vars

\* ------------------------------------------------------------------------
\* math.rs: calls of the sine lookups
\* ------------------------------------------------------------------------

\* number of angle steps on each side of zero
MaxAngleSteps == 220

\* the angles of the lookups: steps of 0.0307 around zero (beyond a full
\* turn on both sides), two large angles, the infinities and NaN
Angles ==
    {k * 307 : k \in (0 - MaxAngleSteps)..MaxAngleSteps}
    \cup {F32(1000), F32(0 - 1000), Infinity, 0 - Infinity, NaN}

\* the slices fast_sin_batch is given for an angle a
BatchValues(a) == {<< >>, <<a>>, <<FNeg(a), NaN, a>>}

\* the f32x16 fast_sin_lookup_simd_16 is given for an angle a: a in lane
\* 0, NaN in lane 1, -a in lane 2, multiples of 1.0 beyond
LaneValues(a) ==
    <<a, NaN, FNeg(a)>> \o [k \in 1..13 |-> F32(k)]

\* a requested call of one of the three lookups
SinCalls(angles) ==
    {[fn |-> "fast_sin_lookup", values |-> <<a>>, returned |-> FALSE,
      index |-> << >>, panicked |-> FALSE, result |-> << >>] :
        a \in angles}
    \cup {[fn |-> "fast_sin_batch", values |-> vs, returned |-> FALSE,
           index |-> << >>, panicked |-> FALSE, result |-> << >>] :
             vs \in UNION {BatchValues(a) : a \in angles}}
    \cup {[fn |-> "fast_sin_lookup_simd_16", values |-> LaneValues(a),
           returned |-> FALSE, index |-> << >>, panicked |-> FALSE,
           result |-> << >>] : a \in angles}

InitSin ==
    /\ STAR_MEMORY_POOL = << >>
    /\ sin_table_built = FALSE
    /\ next_alloc = 0
    /\ pointers = << >>
    /\ frame_result = << >>
    /\ host_copy = << >>
    /\ writes = NoWrites
    /\ spatial_grid = << >>
    /\ NoOtherSystems
    /\ call \in {<<c>> : c \in SinCalls(Angles)}

\* the table indices the lookup computes for the elements of values
sin_table_indices(values) ==
    [k \in 1..Len(values) |-> sin_table_index(values[k])]

\* table[index] faults on an index beyond the table
index_fault(values) ==
    \E k \in 1..Len(values) :
        sin_table_index(values[k]) \notin 0..(SIN_TABLE_SIZE - 1)

\* fast_sin_lookup reads through table.get(index), which cannot fault
CallFastSinLookup ==
    /\ Requested("fast_sin_lookup")
    /\ call' = <<[call[1] EXCEPT
                     !.returned = TRUE,
                     !.index = sin_table_indices(call[1].values),
                     !.result = <<fast_sin_lookup(call[1].values[1])>>]>>
    /\ sin_table_built' = TRUE
    /\ UNCHANGED <<STAR_MEMORY_POOL, next_alloc, pointers, frame_result,
                   host_copy, writes, spatial_grid,
                    other_systems>>

CallFastSinBatch ==
    /\ Requested("fast_sin_batch")
    /\ call' = <<[call[1] EXCEPT
                     !.returned = TRUE,
                     !.index = sin_table_indices(call[1].values),
                     !.panicked = index_fault(call[1].values),
                     !.result = IF index_fault(call[1].values) THEN << >>
                                ELSE fast_sin_batch(call[1].values)]>>
    /\ sin_table_built' = TRUE
    /\ UNCHANGED <<STAR_MEMORY_POOL, next_alloc, pointers, frame_result,
                   host_copy, writes, spatial_grid,
                    other_systems>>

CallFastSinLookupSimd16 ==
    /\ Requested("fast_sin_lookup_simd_16")
    /\ call' = <<[call[1] EXCEPT
                     !.returned = TRUE,
                     !.index = sin_table_indices(call[1].values),
                     !.panicked = index_fault(call[1].values),
                     !.result = IF index_fault(call[1].values) THEN << >>
                                ELSE fast_sin_lookup_simd_16(
                                         call[1].values)]>>
    /\ sin_table_built' = TRUE
    /\ UNCHANGED <<STAR_MEMORY_POOL, next_alloc, pointers, frame_result,
                   host_copy, writes, spatial_grid,
                    other_systems>>

NextSin == CallFastSinLookup \/ CallFastSinBatch \/ CallFastSinLookupSimd16

SpecSin == InitSin /\ [][NextSin]_vars

\* ------------------------------------------------------------------------
\* star_field.rs: effects over interleaved positions, temporal coherence
\* ------------------------------------------------------------------------

\* sparkle of a star at (x, y) by the scalar formula
star_sparkle(x, y, time) ==
    IF FGt(fast_sin_lookup(FAdd(FAdd(FMul(time, Dec(15, 0)),
                                     FMul(x, Dec(20, 0))),
                                FMul(y, Dec(30, 0)))),
           Dec(0, 9800))
    THEN FDiv(FSub(fast_sin_lookup(FAdd(FAdd(FMul(time, Dec(15, 0)),
                                             FMul(x, Dec(20, 0))),
                                        FMul(y, Dec(30, 0)))),
                   Dec(0, 9800)),
              Dec(0, 200))
    ELSE F32(0)

\* twinkle of a star at (x, y) by the scalar formula: twinkle_base + sparkle
star_twinkle(x, y, time) ==
    FAdd(FAdd(FMul(fast_sin_lookup(FAdd(FAdd(FMul(time, Dec(3, 0)),
                                             FMul(x, Dec(10, 0))),
                                        FMul(y, Dec(10, 0)))),
                   Dec(0, 3000)),
              Dec(0, 7000)),
         star_sparkle(x, y, time))

\* calculate_star_effects_arrays: twinkle and sparkle of star i at 2 i and
\* 2 i + 1, from positions[3 i] and positions[3 i + 1]
calculate_star_effects_arrays(positions, count, time) ==
    [n \in 1..(2 * count) |->
        IF n % 2 = 1
        THEN star_twinkle(positions[3 * ((n - 1) \div 2) + 1],
                          positions[3 * ((n - 1) \div 2) + 2], time)
        ELSE star_sparkle(positions[3 * ((n - 1) \div 2) + 1],
                          positions[3 * ((n - 1) \div 2) + 2], time)]

\* twinkle_diff > threshold || sparkle_diff > threshold
needs_update(twinkle, sparkle_value, previous_twinkle, previous_sparkle, threshold) ==
    \/ FGt(FAbs(FSub(twinkle, previous_twinkle)), threshold)
    \/ FGt(FAbs(FSub(sparkle_value, previous_sparkle)), threshold)

\* get_stars_needing_update: the indices i, ascending, whose new effects
\* differ from the previous ones by more than threshold
get_stars_needing_update(positions, previous_twinkles, previous_sparkles, count, time, threshold) ==
    SelectSeq([n \in 1..count |-> n - 1],
              LAMBDA i :
                  needs_update(
                      star_twinkle(positions[3 * i + 1], positions[3 * i + 2],
                                   time),
                      star_sparkle(positions[3 * i + 1], positions[3 * i + 2],
                                   time),
                      previous_twinkles[i + 1], previous_sparkles[i + 1],
                      threshold))

\* x_values / y_values of the chunk at base: offset 0 for x, 1 for y
temporal_load(positions, base, offset) ==
    [i \in 1..16 |-> positions[(base + i - 1) * 3 + 1 + offset]]

\* a sparkle_vec that keeps the excess over the threshold unscaled
temporal_sparkle_vec_unscaled(sparkle_phase_vec) ==
    [k \in 1..16 |->
        IF FGt(sparkle_phase_vec[k], Dec(0, 9800))
        THEN FSub(sparkle_phase_vec[k], Dec(0, 9800))
        ELSE F32(0)]

\* sparkle_vec: sparkle_mask.select((phase - 0.98) * 50.0, zero)
temporal_sparkle_vec(sparkle_phase_vec) ==
    [k \in 1..16 |->
        IF FGt(sparkle_phase_vec[k], Dec(0, 9800))
        THEN FMul(FSub(sparkle_phase_vec[k], Dec(0, 9800)), Dec(50, 0))
        ELSE F32(0)]

\* sparkle_phase_vec of a chunk
temporal_sparkle_phase_vec(x_values, y_values, time) ==
    fast_sin_lookup_simd_16(
        [k \in 1..16 |->
            FAdd(FAdd(FMul(time, Dec(15, 0)), FMul(x_values[k], Dec(20, 0))),
                 FMul(y_values[k], Dec(30, 0)))])

\* twinkle_base_vec of a chunk
temporal_twinkle_base_vec(x_values, y_values, time) ==
    fast_sin_lookup_simd_16(
        [k \in 1..16 |->
            FAdd(FAdd(FMul(time, Dec(3, 0)), FMul(x_values[k], Dec(10, 0))),
                 FMul(y_values[k], Dec(10, 0)))])

\* twinkle_vec = twinkle_base_vec * 0.3 + 0.7 + sparkle_vec
temporal_twinkle_vec(sin_vec, sparkle_vec) ==
    [k \in 1..16 |->
        FAdd(FAdd(FMul(sin_vec[k], Dec(0, 3000)), Dec(0, 7000)),
             sparkle_vec[k])]

\* the 48 values a chunk pushes: needs_update, twinkle, sparkle per lane
temporal_store(twinkle_vec, sparkle_vec, previous_twinkles, previous_sparkles, base, threshold) ==
    [n \in 1..48 |->
        IF n % 3 = 1
        THEN IF needs_update(twinkle_vec[(n - 1) \div 3 + 1],
                             sparkle_vec[(n - 1) \div 3 + 1],
                             previous_twinkles[base + (n - 1) \div 3 + 1],
                             previous_sparkles[base + (n - 1) \div 3 + 1],
                             threshold)
             THEN F32(1) ELSE F32(0)
        ELSE IF n % 3 = 2 THEN twinkle_vec[(n - 1) \div 3 + 1]
        ELSE sparkle_vec[(n - 1) \div 3 + 1]]

\* one iteration of the 16-wide loop
temporal_chunk(x_values, y_values, previous_twinkles, previous_sparkles, base, time, threshold) ==
    temporal_store(
        temporal_twinkle_vec(
            temporal_twinkle_base_vec(x_values, y_values, time),
            temporal_sparkle_vec(
                temporal_sparkle_phase_vec(x_values, y_values, time))),
        temporal_sparkle_vec(
            temporal_sparkle_phase_vec(x_values, y_values, time)),
        previous_twinkles, previous_sparkles, base, threshold)

RECURSIVE temporal_chunks_from(_, _, _, _, _, _, _)
\* the chunks chunk .. chunks - 1 of the 16-wide loop
temporal_chunks_from(positions, previous_twinkles, previous_sparkles, chunk, chunks, time, threshold) ==
    IF chunk >= chunks THEN << >>
    ELSE temporal_chunk(temporal_load(positions, chunk * 16, 0),
                        temporal_load(positions, chunk * 16, 1),
                        previous_twinkles, previous_sparkles, chunk * 16,
                        time, threshold)
         \o temporal_chunks_from(positions, previous_twinkles,
                                 previous_sparkles, chunk + 1, chunks, time,
                                 threshold)

\* what the scalar loop pushes for star i
temporal_remaining_star(twinkle, sparkle_value, previous_twinkle, previous_sparkle, threshold) ==
    <<IF needs_update(twinkle, sparkle_value, previous_twinkle,
                      previous_sparkle, threshold)
      THEN F32(1) ELSE F32(0),
      twinkle, sparkle_value>>

RECURSIVE temporal_remaining_from(_, _, _, _, _, _, _)
\* the stars i .. count - 1 of the scalar loop
temporal_remaining_from(positions, previous_twinkles, previous_sparkles, i, count, time, threshold) ==
    IF i >= count THEN << >>
    ELSE temporal_remaining_star(
             star_twinkle(positions[3 * i + 1], positions[3 * i + 2], time),
             star_sparkle(positions[3 * i + 1], positions[3 * i + 2], time),
             previous_twinkles[i + 1], previous_sparkles[i + 1], threshold)
         \o temporal_remaining_from(positions, previous_twinkles,
                                    previous_sparkles, i + 1, count, time,
                                    threshold)

\* calculate_star_effects_temporal_simd: count / 16 chunks, then the rest
calculate_star_effects_temporal_simd(positions, previous_twinkles, previous_sparkles, count, time, threshold) ==
    temporal_chunks_from(positions, previous_twinkles, previous_sparkles, 0,
                         count \div 16, time, threshold)
    \o temporal_remaining_from(positions, previous_twinkles,
                               previous_sparkles, (count \div 16) * 16, count,
                               time, threshold)

\* largest number of whole chunks of a temporal call
MaxTemporalChunks == 1

\* star counts: whole chunks plus a remainder of 0, 1 or 2
TemporalCounts == {16 * q + r : q \in 0..MaxTemporalChunks, r \in 0..2}

\* interleaved positions of count stars: star i at (i dx, (i % 3) dy, 0),
\* the star nan_star (if below count) at (NaN, NaN, NaN)
temporal_positions(count, dx, dy, nan_star) ==
    [n \in 1..(3 * count) |->
        IF (n - 1) \div 3 = nan_star THEN NaN
        ELSE IF n % 3 = 1 THEN ((n - 1) \div 3) * dx
        ELSE IF n % 3 = 2 THEN (((n - 1) \div 3) % 3) * dy
        ELSE F32(0)]

\* previous values: the pool defaults ("fresh": twinkle 1.0, sparkle 0.0),
\* the effects of the same time ("same"), of the time 0.1 earlier
\* ("earlier") or NaN for the stars of even index ("nan", defaults else);
\* part 1 is the twinkles, 2 the sparkles
temporal_previous(kind, positions, count, time, part) ==
    [i \in 1..count |->
        IF kind = "same"
        THEN calculate_star_effects_arrays(positions, count, time)[
                 2 * (i - 1) + part]
        ELSE IF kind = "earlier"
        THEN calculate_star_effects_arrays(
                 positions, count, FSub(time, Dec(0, 1000)))[
                 2 * (i - 1) + part]
        ELSE IF kind = "nan" /\ i % 2 = 1 THEN NaN
        ELSE IF part = 1 THEN F32(1) ELSE F32(0)]

TemporalFunctions ==
    {"calculate_star_effects_arrays", "get_stars_needing_update",
     "calculate_star_effects_temporal_simd"}

\* a requested call of one of the three functions
TemporalCalls(counts) ==
    {[fn |-> fn, positions |-> temporal_positions(count, dx, dy, nan_star),
      count |-> count, time |-> time, threshold |-> threshold,
      previous_twinkles |->
          temporal_previous(kind,
                            temporal_positions(count, dx, dy, nan_star),
                            count, time, 1),
      previous_sparkles |->
          temporal_previous(kind,
                            temporal_positions(count, dx, dy, nan_star),
                            count, time, 2),
      returned |-> FALSE, result |-> << >>] :
        fn \in TemporalFunctions, count \in counts,
        dx \in {Dec(0, 157), Dec(0, 1000)}, dy \in {F32(0), Dec(0, 100)},
        nan_star \in {0 - 1, 0, 16},
        time \in {F32(0), Dec(0, 3370)},
        threshold \in {F32(0), Dec(0, 500), NaN},
        kind \in {"fresh", "same", "earlier", "nan"}}

InitTemporal ==
    /\ STAR_MEMORY_POOL = << >>
    /\ sin_table_built = FALSE
    /\ next_alloc = 0
    /\ pointers = << >>
    /\ frame_result = << >>
    /\ host_copy = << >>
    /\ writes = NoWrites
    /\ spatial_grid = << >>
    /\ NoOtherSystems
    /\ call \in {<<c>> : c \in TemporalCalls(TemporalCounts)}

CallEffectsArrays ==
    /\ Requested("calculate_star_effects_arrays")
    /\ call' = <<[call[1] EXCEPT
                     !.returned = TRUE,
                     !.result = calculate_star_effects_arrays(
                                    call[1].positions, call[1].count,
                                    call[1].time)]>>
    /\ sin_table_built' = TRUE
    /\ UNCHANGED <<STAR_MEMORY_POOL, next_alloc, pointers, frame_result,
                   host_copy, writes, spatial_grid,
                    other_systems>>

CallStarsNeedingUpdate ==
    /\ Requested("get_stars_needing_update")
    /\ call' = <<[call[1] EXCEPT
                     !.returned = TRUE,
                     !.result = get_stars_needing_update(
                                    call[1].positions,
                                    call[1].previous_twinkles,
                                    call[1].previous_sparkles, call[1].count,
                                    call[1].time, call[1].threshold)]>>
    /\ sin_table_built' = TRUE
    /\ UNCHANGED <<STAR_MEMORY_POOL, next_alloc, pointers, frame_result,
                   host_copy, writes, spatial_grid,
                    other_systems>>

CallEffectsTemporalSimd ==
    /\ Requested("calculate_star_effects_temporal_simd")
    /\ call' = <<[call[1] EXCEPT
                     !.returned = TRUE,
                     !.result = calculate_star_effects_temporal_simd(
                                    call[1].positions,
                                    call[1].previous_twinkles,
                                    call[1].previous_sparkles, call[1].count,
                                    call[1].time, call[1].threshold)]>>
    /\ sin_table_built' = TRUE
    /\ UNCHANGED <<STAR_MEMORY_POOL, next_alloc, pointers, frame_result,
                   host_copy, writes, spatial_grid,
                    other_systems>>

NextTemporal ==
    CallEffectsArrays \/ CallStarsNeedingUpdate \/ CallEffectsTemporalSimd

SpecTemporal == InitTemporal /\ [][NextTemporal]_vars

\* ------------------------------------------------------------------------
\* star_field.rs: speed multiplier
\* ------------------------------------------------------------------------

\* f32::min: the other operand when one is NaN
FMin(a, b) == IF IsNaN(a) THEN b ELSE IF IsNaN(b) THEN a ELSE Min(a, b)

\* movement_boost: 8.0 while moving, 1.0 otherwise
movement_boost(is_moving) == IF is_moving THEN F32(8) ELSE F32(1)

\* click_boost: 1.0 + 8.0 * (1.0 - time_since_click / 0.5) within half a
\* second of the click, 1.0 otherwise (also for a NaN time)
click_boost(click_time, current_time) ==
    IF FLt(FSub(current_time, click_time), Dec(0, 5000))
    THEN FAdd(F32(1),
              FMul(F32(8),
                   FSub(F32(1), FDiv(FSub(current_time, click_time),
                                     Dec(0, 5000)))))
    ELSE F32(1)

\* speed_multiplier: combined_boost.min(15.0)
speed_multiplier(is_moving, click_time, current_time) ==
    FMin(FMul(movement_boost(is_moving),
              click_boost(click_time, current_time)),
         F32(15))

\* a smoothing that steps 1.2 times the distance to the target
calculate_speed_multiplier_overshooting(is_moving, click_time, current_time, current_multiplier) ==
    FAdd(current_multiplier,
         FMul(FSub(speed_multiplier(is_moving, click_time, current_time),
                   current_multiplier),
              Dec(1, 2000)))

\* current_multiplier + (speed_multiplier - current_multiplier) * 0.2
calculate_speed_multiplier(is_moving, click_time, current_time, current_multiplier) ==
    FAdd(current_multiplier,
         FMul(FSub(speed_multiplier(is_moving, click_time, current_time),
                   current_multiplier),
              Dec(0, 2000)))

\* calls the host makes in a row with unchanged inputs, each fed the
\* result of the one before
MaxRepeats == 8

\* a requested first call: the click up to 100 s before or after the
\* current time, or a NaN time; the multiplier below, at and above the
\* range of the targets, or NaN
SpeedCalls(moving) ==
    {[fn |-> "calculate_speed_multiplier", is_moving |-> is_moving,
      click_time |-> click_time, current_time |-> current_time,
      start |-> current_multiplier,
      current_multiplier |-> current_multiplier,
      returned |-> FALSE, calls |-> 0, result |-> << >>] :
        is_moving \in moving,
        click_time \in {F32(0), Dec(0, 5000), Dec(0, 5001), Dec(0, 7500),
                        Dec(0, 9999), F32(1), Dec(1, 1000), F32(3),
                        F32(101), NaN},
        current_time \in {F32(1), F32(101), NaN},
        current_multiplier \in {F32(0 - 3), F32(0), Dec(0, 9999), F32(1),
                                Dec(1, 1), F32(5), Dec(14, 9999), F32(15),
                                Dec(15, 1), F32(72), NaN}}

InitSpeed ==
    /\ STAR_MEMORY_POOL = << >>
    /\ sin_table_built = FALSE
    /\ next_alloc = 0
    /\ pointers = << >>
    /\ frame_result = << >>
    /\ host_copy = << >>
    /\ writes = NoWrites
    /\ spatial_grid = << >>
    /\ NoOtherSystems
    /\ call \in {<<c>> : c \in SpeedCalls(BOOLEAN)}

\* the first call
CallSpeedMultiplier ==
    /\ Requested("calculate_speed_multiplier")
    /\ call' = <<[call[1] EXCEPT
                     !.returned = TRUE,
                     !.calls = 1,
                     !.result = <<calculate_speed_multiplier(
                                      call[1].is_moving, call[1].click_time,
                                      call[1].current_time,
                                      call[1].current_multiplier)>>]>>
    /\ UNCHANGED <<STAR_MEMORY_POOL, sin_table_built, next_alloc, pointers,
                   frame_result, host_copy, writes, spatial_grid,
                    other_systems>>

\* the next call, with the last result as current_multiplier
RepeatSpeedMultiplier ==
    /\ Len(call) = 1
    /\ call[1].fn = "calculate_speed_multiplier"
    /\ call[1].returned
    /\ call[1].calls < MaxRepeats
    /\ call' = <<[call[1] EXCEPT
                     !.calls = call[1].calls + 1,
                     !.current_multiplier = call[1].result[1],
                     !.result = <<calculate_speed_multiplier(
                                      call[1].is_moving, call[1].click_time,
                                      call[1].current_time,
                                      call[1].result[1])>>]>>
    /\ UNCHANGED <<STAR_MEMORY_POOL, sin_table_built, next_alloc, pointers,
                   frame_result, host_copy, writes, spatial_grid,
                    other_systems>>

NextSpeed == CallSpeedMultiplier \/ RepeatSpeedMultiplier

SpecSpeed == InitSpeed /\ [][NextSpeed]_vars

\* ------------------------------------------------------------------------
\* spatial.rs: the spatial hash grid
\* ------------------------------------------------------------------------

\* `as i32` on an f32: truncation toward zero, NaN becomes 0
AsI32(a) ==
    IF IsNaN(a) THEN 0
    ELSE IF a < 0 THEN 0 - ((0 - a) \div SCALE) ELSE a \div SCALE

\* f32::ceil
FCeil(a) == IF IsNaN(a) THEN NaN ELSE 0 - (((0 - a) \div SCALE) * SCALE)

\* the SpatialObject that resize fills the vector with
filler_object ==
    [id |-> 0, x |-> F32(0), y |-> F32(0), radius |-> F32(0),
     is_visible |-> FALSE]

\* SpatialGrid::new; cells maps a key <<cell_x, cell_y>> to the ids pushed
SpatialGrid_new(cell_size, canvas_width, canvas_height) ==
    [cell_size |-> cell_size, cells |-> << >>, objects |-> << >>,
     canvas_width |-> canvas_width, canvas_height |-> canvas_height]

\* SpatialGrid::clear
clear(grid) == [grid EXCEPT !.cells = << >>, !.objects = << >>]

\* the cells min_x ..= max_x by min_y ..= max_y of an object
grid_bounds(obj, cell_size) ==
    {<<cell_x, cell_y>> :
        cell_x \in AsI32(FFloor(FDiv(FSub(obj.x, obj.radius), cell_size)))
                   ..AsI32(FCeil(FDiv(FAdd(obj.x, obj.radius), cell_size))),
        cell_y \in AsI32(FFloor(FDiv(FSub(obj.y, obj.radius), cell_size)))
                   ..AsI32(FCeil(FDiv(FAdd(obj.y, obj.radius), cell_size)))}

\* insert_into_grid: push id onto every cell of the object's bounds
insert_into_grid(grid, id) ==
    [grid EXCEPT !.cells =
        [key \in DOMAIN grid.cells
                 \cup grid_bounds(grid.objects[id + 1], grid.cell_size) |->
            IF key \in grid_bounds(grid.objects[id + 1], grid.cell_size)
            THEN IF key \in DOMAIN grid.cells
                 THEN Append(grid.cells[key], id)
                 ELSE <<id>>
            ELSE grid.cells[key]]]

\* objects.resize(id + 1, filler) if id >= objects.len()
resized(objects, id) ==
    IF id >= Len(objects)
    THEN objects \o [k \in 1..(id + 1 - Len(objects)) |-> filler_object]
    ELSE objects

\* the first half of add_object: the object is stored at index id
store_object(grid, id, x, y, r, is_visible) ==
    [grid EXCEPT !.objects =
        [resized(grid.objects, id) EXCEPT ![id + 1] =
            [id |-> id, x |-> x, y |-> y, radius |-> r,
             is_visible |-> is_visible]]]

\* SpatialGrid::add_object: only a visible object enters the cells
add_object(grid, id, x, y, r, is_visible) ==
    IF is_visible
    THEN insert_into_grid(store_object(grid, id, x, y, r, is_visible),
                          id)
    ELSE store_object(grid, id, x, y, r, is_visible)

\* the orders in which the HashMap is taken to yield its cells
Iterations == {"ascending", "descending"}

\* cell a comes no later than cell b
cell_before(a, b, iteration) ==
    IF iteration = "ascending"
    THEN a[1] < b[1] \/ (a[1] = b[1] /\ a[2] <= b[2])
    ELSE b[1] < a[1] \/ (a[1] = b[1] /\ b[2] <= a[2])

RECURSIVE cell_sequence(_, _)
\* first, then the other keys in their order
cell_sequence_from(keys, first, iteration) ==
    <<first>> \o cell_sequence(keys \ {first}, iteration)

\* `for (_, object_ids) in &self.cells`: the keys in the order of iteration
cell_sequence(keys, iteration) ==
    IF keys = {} THEN << >>
    ELSE cell_sequence_from(
             keys,
             CHOOSE k \in keys : \A o \in keys : cell_before(k, o, iteration),
             iteration)

\* pair_key: the smaller id first
pair_key(id1, id2) == IF id1 < id2 THEN <<id1, id2>> ELSE <<id2, id1>>

\* the six values pushed if distance < combined_radius
overlap_record(obj1, obj2, distance, combined_radius) ==
    IF FLt(distance, combined_radius)
    THEN <<F32(obj1.id), F32(obj2.id), distance,
           FSub(F32(1), FDiv(distance, combined_radius)),
           FDiv(FAdd(obj1.x, obj2.x), F32(2)),
           FDiv(FAdd(obj1.y, obj2.y), F32(2))>>
    ELSE << >>

\* distance = sqrt(dx dx + dy dy)
center_distance(obj1, obj2) ==
    F32Sqrt(FAdd(FMul(FSub(obj1.x, obj2.x), FSub(obj1.x, obj2.x)),
                 FMul(FSub(obj1.y, obj2.y), FSub(obj1.y, obj2.y))))

\* the check for actual overlap of a pair not checked before
check_overlap(obj1, obj2, overlap_factor) ==
    overlap_record(obj1, obj2, center_distance(obj1, obj2),
                   FMul(FAdd(obj1.radius, obj2.radius), overlap_factor))

RECURSIVE find_overlaps_from(_, _, _, _, _, _, _, _)
\* the loops of find_overlaps from cell order[c], i and j on
find_overlaps_from(grid, order, c, i, j, checked_pairs, overlaps, overlap_factor) ==
    IF c > Len(order) THEN overlaps
    ELSE IF i >= Len(grid.cells[order[c]])
    THEN find_overlaps_from(grid, order, c + 1, 0, 1, checked_pairs,
                            overlaps, overlap_factor)
    ELSE IF j >= Len(grid.cells[order[c]])
    THEN find_overlaps_from(grid, order, c, i + 1, i + 2, checked_pairs,
                            overlaps, overlap_factor)
    ELSE IF pair_key(grid.cells[order[c]][i + 1],
                     grid.cells[order[c]][j + 1]) \in checked_pairs
    THEN find_overlaps_from(grid, order, c, i, j + 1, checked_pairs,
                            overlaps, overlap_factor)
    ELSE find_overlaps_from(
             grid, order, c, i, j + 1,
             checked_pairs \cup {pair_key(grid.cells[order[c]][i + 1],
                                          grid.cells[order[c]][j + 1])},
             overlaps \o check_overlap(
                 grid.objects[grid.cells[order[c]][i + 1] + 1],
                 grid.objects[grid.cells[order[c]][j + 1] + 1],
                 overlap_factor),
             overlap_factor)

\* SpatialGrid::find_overlaps
find_overlaps(grid, overlap_factor, iteration) ==
    find_overlaps_from(grid, cell_sequence(DOMAIN grid.cells, iteration), 1,
                       0, 1, {}, << >>, overlap_factor)

\* ids the host adds objects under: 0 .. MaxObjects - 1
MaxObjects == 3

\* what the host adds, on a grid of cell size 1.0: a disc of radius 0.5 at
\* (0.5, 0.5); one 0.4 beside it, visible or not; two of radius 0.25, at
\* (2.5, 0.5) and at (0.5, 2.0)
Placements ==
    {[x |-> Dec(0, 5000), y |-> Dec(0, 5000), radius |-> Dec(0, 5000),
      is_visible |-> TRUE],
     [x |-> Dec(0, 9000), y |-> Dec(0, 5000), radius |-> Dec(0, 5000),
      is_visible |-> TRUE],
     [x |-> Dec(0, 9000), y |-> Dec(0, 5000), radius |-> Dec(0, 5000),
      is_visible |-> FALSE],
     [x |-> Dec(2, 5000), y |-> Dec(0, 5000), radius |-> Dec(0, 2500),
      is_visible |-> TRUE],
     [x |-> Dec(0, 5000), y |-> F32(2), radius |-> Dec(0, 2500),
      is_visible |-> TRUE]}

\* the overlap factors the host asks with
OverlapFactors == {Dec(0, 5000), Dec(0, 8000), F32(1), F32(3)}

InitSpatial ==
    /\ STAR_MEMORY_POOL = << >>
    /\ sin_table_built = FALSE
    /\ next_alloc = 0
    /\ pointers = << >>
    /\ frame_result = << >>
    /\ host_copy = << >>
    /\ writes = NoWrites
    /\ call = << >>
    /\ spatial_grid = <<SpatialGrid_new(F32(1), F32(8), F32(6))>>
    /\ NoOtherSystems

\* add_object under an id not added before
AddObject ==
    \E id \in 0..(MaxObjects - 1), p \in Placements :
        /\ Len(spatial_grid) = 1
        /\ IF id >= Len(spatial_grid[1].objects) THEN TRUE
           ELSE spatial_grid[1].objects[id + 1] = filler_object
        /\ spatial_grid' = <<add_object(spatial_grid[1], id, p.x, p.y,
                                        p.radius, p.is_visible)>>
        /\ call' = << >>
        /\ UNCHANGED <<STAR_MEMORY_POOL, sin_table_built, next_alloc,
                       pointers, frame_result, host_copy, writes,
                    other_systems>>

FindOverlaps ==
    \E overlap_factor \in OverlapFactors, iteration \in Iterations :
        /\ Len(spatial_grid) = 1
        /\ call' = <<[fn |-> "find_overlaps",
                      overlap_factor |-> overlap_factor, returned |-> TRUE,
                      result |-> find_overlaps(spatial_grid[1],
                                               overlap_factor, iteration)]>>
        /\ UNCHANGED <<STAR_MEMORY_POOL, sin_table_built, next_alloc,
                       pointers, frame_result, host_copy, writes,
                       spatial_grid,
                    other_systems>>

Clear ==
    /\ Len(spatial_grid) = 1
    /\ spatial_grid' = <<clear(spatial_grid[1])>>
    /\ call' = << >>
    /\ UNCHANGED <<STAR_MEMORY_POOL, sin_table_built, next_alloc, pointers,
                   frame_result, host_copy, writes,
                    other_systems>>

NextSpatial == AddObject \/ FindOverlaps \/ Clear

SpecSpatial == InitSpatial /\ [][NextSpatial]_vars

\* ------------------------------------------------------------------------
\* particles.rs: the meteor system
\* ------------------------------------------------------------------------
\* Of a Meteor the model keeps the animation state, the glow colour its
\* particles take and the particle range; of a Particle the life, the
\* colour and the active flag.  Positions, velocities and the bezier path
\* are read by no decision of the functions below.

MAX_METEORS == 20

MAX_PARTICLES_PER_METEOR == 10

MAX_TOTAL_PARTICLES == MAX_METEORS * MAX_PARTICLES_PER_METEOR

\* `as u8` on an f32: truncation, saturating at 0 and 255, NaN becomes 0
AsU8(a) == Min(AsUsize(a), 255)

\* Meteor::default()
Meteor_default ==
    [life |-> F32(0), max_life |-> F32(100), size |-> Dec(0, 5000),
     speed |-> F32(1), glow_r |-> 255, active |-> FALSE, meteor_type |-> 0,
     particle_start |-> 0, particle_count |-> 0]

\* Particle::default()
Particle_default == [life |-> F32(0), color_r |-> 255, active |-> FALSE]

\* MeteorSystem::new
MeteorSystem_new(canvas_width, canvas_height) ==
    [meteors |-> [i \in 1..MAX_METEORS |-> Meteor_default],
     particles |-> [p \in 1..MAX_TOTAL_PARTICLES |-> Particle_default],
     particle_pool_cursor |-> 0,
     canvas_width |-> canvas_width, canvas_height |-> canvas_height]

\* MeteorSystem::init_meteor: the slot at index is overwritten, whatever
\* it holds
init_meteor(system, index, size, speed, max_life, meteor_type, glow_r) ==
    IF index >= MAX_METEORS THEN system
    ELSE [system EXCEPT !.meteors[index + 1] =
             [life |-> F32(0), max_life |-> max_life, size |-> size,
              speed |-> speed, glow_r |-> glow_r, active |-> TRUE,
              meteor_type |-> meteor_type,
              particle_start |-> 0, particle_count |-> 0]]

\* get_active_meteor_count
get_active_meteor_count(system) ==
    Cardinality({i \in 1..MAX_METEORS : system.meteors[i].active})

\* the first loop of update_meteors on one meteor: life += life_increment
advance_meteor(meteor, life_increment) ==
    IF meteor.active
    THEN [meteor EXCEPT !.life = FAdd(meteor.life, life_increment)]
    ELSE meteor

\* is_done = t >= 1.0 || life >= max_life with t = (life / max_life).min(1.0)
is_done(meteor) ==
    \/ FGe(FMin(FDiv(meteor.life, meteor.max_life), F32(1)), F32(1))
    \/ FGe(meteor.life, meteor.max_life)

\* the particle indices the release loops of the done meteors run over:
\* (particle_start + j) % MAX_TOTAL_PARTICLES for j < particle_count
released_particles(advanced) ==
    UNION {{(advanced[i].particle_start + j) % MAX_TOTAL_PARTICLES :
               j \in 0..(advanced[i].particle_count - 1)} :
           i \in {m \in 1..MAX_METEORS :
                     advanced[m].active /\ is_done(advanced[m])}}

\* the second loop of update_meteors: a done meteor becomes inactive, its
\* particle range is released, its particle count is reset
apply_updates(system, advanced, released) ==
    [system EXCEPT
        !.meteors =
            [i \in 1..MAX_METEORS |->
                IF advanced[i].active /\ is_done(advanced[i])
                THEN [advanced[i] EXCEPT !.active = FALSE,
                                         !.particle_count = 0]
                ELSE advanced[i]],
        !.particles =
            [p \in 1..MAX_TOTAL_PARTICLES |->
                IF (p - 1) \in released
                THEN [system.particles[p] EXCEPT !.active = FALSE]
                ELSE system.particles[p]]]

\* update_meteors once the meteors are advanced
update_advanced(system, advanced) ==
    apply_updates(system, advanced, released_particles(advanced))

\* MeteorSystem::update_meteors; it returns the number of meteors that were
\* active when it was called
update_meteors(system, multiplier) ==
    update_advanced(
        system,
        [i \in 1..MAX_METEORS |->
            advance_meteor(system.meteors[i],
                           FMin(multiplier, F32(2)))])

\* one particle under update_particles
update_particle(particle, life_increment) ==
    IF ~particle.active THEN particle
    ELSE [particle EXCEPT
             !.life = FAdd(particle.life, life_increment),
             !.active = ~FGe(FAdd(particle.life, life_increment), F32(50))]

\* MeteorSystem::update_particles
update_particles(system, multiplier) ==
    [system EXCEPT !.particles =
        [p \in 1..MAX_TOTAL_PARTICLES |->
            update_particle(system.particles[p],
                            FMin(multiplier, F32(2)))]]

\* the steps from the cursor to the inactive particles
free_offsets(particles, cursor) ==
    {k \in 0..(MAX_TOTAL_PARTICLES - 1) :
        ~particles[((cursor + k) % MAX_TOTAL_PARTICLES) + 1].active}

\* the slot the search of spawn_particle stops at: the first inactive one
\* from the cursor on, cyclically
first_free(offsets, cursor) ==
    (cursor + (CHOOSE k \in offsets : \A o \in offsets : k <= o))
        % MAX_TOTAL_PARTICLES

\* the meteor after a particle at particle_idx was tracked with it
track_particle(meteor, particle_idx) ==
    [meteor EXCEPT
        !.particle_start =
            IF meteor.particle_count = 0 THEN particle_idx
            ELSE meteor.particle_start,
        !.particle_count = meteor.particle_count + 1]

\* the end of spawn_particle: the particle is initialized with the glow
\* colour of the meteor, the cursor moves behind it, the meteor tracks it
store_particle(system, meteor_index, particle_idx) ==
    [system |->
        [system EXCEPT
            !.particles[particle_idx + 1] =
                [life |-> F32(0),
                 color_r |-> system.meteors[meteor_index + 1].glow_r,
                 active |-> TRUE],
            !.particle_pool_cursor =
                (particle_idx + 1) % MAX_TOTAL_PARTICLES,
            !.meteors[meteor_index + 1] =
                track_particle(system.meteors[meteor_index + 1],
                               particle_idx)],
     returned |-> TRUE]

\* the search of spawn_particle and what follows it
spawn_at_free_slot(system, meteor_index, offsets) ==
    IF offsets = {} THEN [system |-> system, returned |-> FALSE]
    ELSE store_particle(system, meteor_index,
                        first_free(offsets, system.particle_pool_cursor))

\* MeteorSystem::spawn_particle; random is the value Math.random() gives
spawn_particle(system, meteor_index, spawn_rate, max_particles, random) ==
    IF meteor_index >= MAX_METEORS
    THEN [system |-> system, returned |-> FALSE]
    ELSE IF \/ ~system.meteors[meteor_index + 1].active
            \/ system.meteors[meteor_index + 1].particle_count
                   >= max_particles
    THEN [system |-> system, returned |-> FALSE]
    ELSE IF FGe(random, spawn_rate)
    THEN [system |-> system, returned |-> FALSE]
    ELSE spawn_at_free_slot(
             system, meteor_index,
             free_offsets(system.particles, system.particle_pool_cursor))

\* ------------------------------------------------------------------------
\* render_pipeline.rs: the render pipeline over the meteor system
\* ------------------------------------------------------------------------
\* The particle system, the render buffer and the timing metrics of the
\* pipeline are not modelled; what update_all derives from them is an
\* input of the action.

\* DirtyFlags: a u8 as the set of its set bit positions
DirtyFlags_METEORS == {0}

DirtyFlags_PARTICLES == {1}

DirtyFlags_ALL == 0..7

\* RenderPipeline::new
RenderPipeline_new(canvas_width, canvas_height) ==
    [meteor_system |-> MeteorSystem_new(canvas_width, canvas_height),
     dirty_flags |-> DirtyFlags_ALL,
     frame_counter |-> 0,
     meteor_high_water |-> 0]

\* RenderPipeline::spawn_meteor: with fewer than 20 active meteors the first
\* pass of `for i in 0..20` initializes slot i = 0 and returns true
spawn_meteor(pipeline, size, speed, max_life, meteor_type, glow_r) ==
    IF get_active_meteor_count(pipeline.meteor_system) >= 20
    THEN [pipeline |-> pipeline, returned |-> FALSE]
    ELSE [pipeline |->
             [pipeline EXCEPT
                 !.meteor_system =
                     init_meteor(pipeline.meteor_system, 0,
                                 size, speed, max_life, meteor_type,
                                 AsU8(FMul(glow_r, F32(255)))),
                 !.dirty_flags = pipeline.dirty_flags \cup DirtyFlags_METEORS],
          returned |-> TRUE]

\* should_update_meteors, recent being has_meteor_significant_changes()
should_update_meteors(pipeline, recent) ==
    recent \/ pipeline.frame_counter % 3 = 0

\* the meteor step of update_all
update_pipeline_meteors(pipeline, multiplier, active_meteors, still_recent) ==
    [pipeline EXCEPT
        !.meteor_system = update_meteors(pipeline.meteor_system,
                                         multiplier),
        !.dirty_flags =
            IF active_meteors > 0 \/ still_recent
            THEN pipeline.dirty_flags \cup DirtyFlags_METEORS
            ELSE pipeline.dirty_flags,
        !.meteor_high_water =
            IF active_meteors > pipeline.meteor_high_water
            THEN active_meteors ELSE pipeline.meteor_high_water]

\* update_all after frame_counter += 1
update_counted(pipeline, multiplier, recent, still_recent, particles_dirty) ==
    [(IF should_update_meteors(pipeline, recent)
      THEN update_pipeline_meteors(
               pipeline, multiplier,
               get_active_meteor_count(pipeline.meteor_system),
               still_recent)
      ELSE pipeline)
     EXCEPT !.dirty_flags =
        IF particles_dirty THEN @ \cup DirtyFlags_PARTICLES ELSE @]

\* RenderPipeline::update_all
update_all(pipeline, dt, multiplier, recent, still_recent, particles_dirty) ==
    update_counted(
        [pipeline EXCEPT !.frame_counter = pipeline.frame_counter + 1],
        multiplier, recent, still_recent, particles_dirty)

\* RenderPipeline::destroy
destroy(pipeline) ==
    [pipeline EXCEPT !.dirty_flags = {}, !.frame_counter = 0]

\* the star field is not in use
NoStarField ==
    /\ STAR_MEMORY_POOL = << >>
    /\ sin_table_built = FALSE
    /\ next_alloc = 0
    /\ pointers = << >>
    /\ frame_result = << >>
    /\ host_copy = << >>
    /\ writes = NoWrites
    /\ spatial_grid = << >>

star_field_vars ==
    <<STAR_MEMORY_POOL, sin_table_built, next_alloc, pointers, frame_result,
      host_copy, writes, spatial_grid>>

\* frames the host runs before it destroys the pipeline
MaxFrames == 3

\* the lives, in frames at full speed, the host gives a meteor
MeteorLives == {F32(2), F32(3)}

\* the glow the host gives a meteor
Glows == {Dec(0, 2000), F32(1)}

\* the speed multipliers of a frame
SpeedMultipliers == {F32(1), F32(3)}

InitPipeline ==
    /\ NoStarField
    /\ call = << >>
    /\ render_pipeline = <<RenderPipeline_new(F32(800), F32(600))>>
    /\ meteor_system = << >>
    /\ particle_pool = << >>
    /\ particle_system = << >>
    /\ scatter_text = << >>
    /\ memory_pool = << >>

\* the outcome of a spawn_meteor call
SpawnMeteorDone(result) ==
    /\ render_pipeline' = <<result.pipeline>>
    /\ call' = <<[fn |-> "spawn_meteor", returned |-> result.returned]>>

SpawnMeteor ==
    \E max_life \in MeteorLives, glow_r \in Glows :
        /\ Len(render_pipeline) = 1
        /\ SpawnMeteorDone(spawn_meteor(render_pipeline[1], Dec(0, 5000),
                                        F32(1), max_life, 0, glow_r))
        /\ UNCHANGED <<star_field_vars, meteor_system, particle_pool,
                       particle_system, scatter_text, memory_pool>>

PipelineUpdateAll ==
    \E multiplier \in SpeedMultipliers, recent \in BOOLEAN, still_recent \in BOOLEAN, particles_dirty \in BOOLEAN :
        /\ Len(render_pipeline) = 1
        /\ render_pipeline[1].frame_counter < MaxFrames
        /\ still_recent => recent
        /\ render_pipeline' =
               <<update_all(render_pipeline[1], Dec(0, 160),
                            multiplier, recent, still_recent,
                            particles_dirty)>>
        /\ call' = <<[fn |-> "update_all", returned |-> TRUE]>>
        /\ UNCHANGED <<star_field_vars, meteor_system, particle_pool,
                       particle_system, scatter_text, memory_pool>>

Destroy ==
    /\ Len(render_pipeline) = 1
    /\ render_pipeline' = <<destroy(render_pipeline[1])>>
    /\ call' = <<[fn |-> "destroy", returned |-> TRUE]>>
    /\ UNCHANGED <<star_field_vars, meteor_system, particle_pool,
                   particle_system, scatter_text, memory_pool>>

NextPipeline == SpawnMeteor \/ PipelineUpdateAll \/ Destroy

SpecPipeline == InitPipeline /\ [][NextPipeline]_vars

\* ------------------------------------------------------------------------
\* the host of a MeteorSystem
\* ------------------------------------------------------------------------

\* meteor slots the host uses: 0 .. MaxMeteors - 1
MaxMeteors == 2

\* particles the host spawns before it stops spawning
MaxSpawns == 3

\* frames of particle updates the host runs in one go
ParticleFrames == 12

RECURSIVE update_particles_repeatedly(_, _, _)
\* update_particles called n times in a row
update_particles_repeatedly(system, multiplier, n) ==
    IF n = 0 THEN system
    ELSE update_particles_repeatedly(update_particles(system, multiplier),
                                     multiplier, n - 1)

\* the glow the host gives the meteor of a slot: one colour per slot, which
\* the particles spawned for the meteor take
GlowOf(index) == 10 * (index + 1)

InitMeteors ==
    /\ NoStarField
    /\ call = << >>
    /\ render_pipeline = << >>
    /\ meteor_system = <<MeteorSystem_new(F32(800), F32(600))>>
    /\ particle_pool = << >>
    /\ particle_system = << >>
    /\ scatter_text = << >>
    /\ memory_pool = << >>

\* init_meteor on a slot not used before, with a life of two frames at
\* full speed
InitMeteor ==
    \E index \in 0..(MaxMeteors - 1) :
        /\ Len(meteor_system) = 1
        /\ meteor_system[1].meteors[index + 1] = Meteor_default
        /\ meteor_system' =
               <<init_meteor(meteor_system[1], index, Dec(0, 5000), F32(1),
                             F32(2), 0, GlowOf(index))>>
        /\ UNCHANGED <<star_field_vars, call, render_pipeline, particle_pool,
                       particle_system, scatter_text, memory_pool>>

SpawnParticle ==
    \E meteor_index \in 0..(MaxMeteors - 1), random \in {Dec(0, 1000), Dec(0, 9000)} :
        /\ Len(meteor_system) = 1
        /\ meteor_system[1].particle_pool_cursor < MaxSpawns
        /\ meteor_system' =
               <<spawn_particle(meteor_system[1], meteor_index, Dec(0, 5000),
                                MAX_PARTICLES_PER_METEOR, random).system>>
        /\ UNCHANGED <<star_field_vars, call, render_pipeline, particle_pool,
                       particle_system, scatter_text, memory_pool>>

UpdateMeteors ==
    \E multiplier \in SpeedMultipliers :
        /\ Len(meteor_system) = 1
        /\ meteor_system' = <<update_meteors(meteor_system[1], multiplier)>>
        /\ UNCHANGED <<star_field_vars, call, render_pipeline, particle_pool,
                       particle_system, scatter_text, memory_pool>>

UpdateParticles ==
    /\ Len(meteor_system) = 1
    /\ meteor_system' =
           <<update_particles_repeatedly(meteor_system[1], F32(3),
                                         ParticleFrames)>>
    /\ UNCHANGED <<star_field_vars, call, render_pipeline, particle_pool,
                   particle_system, scatter_text, memory_pool>>

NextMeteors == InitMeteor \/ SpawnParticle \/ UpdateMeteors \/ UpdateParticles

SpecMeteors == InitMeteors /\ [][NextMeteors]_vars

\* ------------------------------------------------------------------------
\* particle_pool.rs: the shared particle pool
\* ------------------------------------------------------------------------
\* A VecDeque is the sequence of its elements, front first.  An array
\* built element by element is concatenated with the empty sequence, which
\* leaves it as it is and has TLC store it as a tuple.

POOL_SIZE == 2000

\* ParticlePool::new: every index free, in ascending order
ParticlePool_new ==
    [free_indices |-> [i \in 1..POOL_SIZE |-> i - 1] \o << >>,
     allocations |-> [i \in 1..POOL_SIZE |-> << >>] \o << >>,
     total_allocated |-> 0]

\* the pool after the loop of allocate_block popped count indices, taken
\* being the set of them
take_front(pool, count, system_id, taken) ==
    [free_indices |-> SubSeq(pool.free_indices, count + 1,
                             Len(pool.free_indices)),
     allocations |->
        [i \in 1..POOL_SIZE |->
            IF (i - 1) \in taken
            THEN <<system_id>> ELSE pool.allocations[i]] \o << >>,
     total_allocated |-> pool.total_allocated + count]

\* ParticlePool::allocate_block
allocate_block(pool, count, system_id) ==
    IF Len(pool.free_indices) < count
    THEN [pool |-> pool, returned |-> << >>]
    ELSE [pool |-> take_front(pool, count, system_id,
                              {pool.free_indices[k] : k \in 1..count}),
          returned |-> <<SubSeq(pool.free_indices, 1, count)>>]

\* ParticlePool::allocate
allocate(pool, system_id) ==
    IF Len(pool.free_indices) > 0
    THEN [pool |->
             [free_indices |-> Tail(pool.free_indices),
              allocations |->
                 [pool.allocations EXCEPT
                     ![pool.free_indices[1] + 1] = <<system_id>>],
              total_allocated |-> pool.total_allocated + 1],
          returned |-> <<pool.free_indices[1]>>]
    ELSE [pool |-> pool, returned |-> << >>]

\* a free that does not look at the allocation entry
free_unchecked(pool, index) ==
    IF index < POOL_SIZE
    THEN [free_indices |-> Append(pool.free_indices, index),
          allocations |-> [pool.allocations EXCEPT ![index + 1] = << >>],
          total_allocated |->
             IF pool.total_allocated = 0 THEN 0
             ELSE pool.total_allocated - 1]
    ELSE pool

\* ParticlePool::free
free(pool, index) ==
    IF index >= POOL_SIZE THEN pool
    ELSE IF pool.allocations[index + 1] = << >> THEN pool
    ELSE [free_indices |-> Append(pool.free_indices, index),
          allocations |-> [pool.allocations EXCEPT ![index + 1] = << >>],
          total_allocated |->
             IF pool.total_allocated = 0 THEN 0
             ELSE pool.total_allocated - 1]

RECURSIVE free_block_between(_, _, _, _)
\* the loop of free_block over the elements first .. last of the slice, in
\* their order: those of the first half, then those of the second
free_block_between(pool, indices, first, last) ==
    IF first > last THEN pool
    ELSE IF first = last THEN free(pool, indices[first])
    ELSE free_block_between(
             free_block_between(pool, indices, first,
                                (first + last) \div 2),
             indices, (first + last) \div 2 + 1, last)

\* ParticlePool::free_block
free_block(pool, indices) ==
    free_block_between(pool, indices, 1, Len(indices))

\* the first loop of free_system: the indices allocated to the system,
\* ascending
to_free(allocations, system_id) ==
    SelectSeq([i \in 1..Len(allocations) |-> i - 1],
              LAMBDA idx : allocations[idx + 1] = <<system_id>>)

\* the second loop of free_system: to_free holds every index once, each is
\* below POOL_SIZE and allocated when its turn comes (a free changes the
\* entry of its own index only), so each free(idx) pushes idx to the back,
\* clears its entry and lowers the count, saturating at 0; freed is the
\* set of the indices
free_each(pool, indices, freed) ==
    [free_indices |-> pool.free_indices \o indices,
     allocations |->
        [i \in 1..Len(pool.allocations) |->
            IF (i - 1) \in freed
            THEN << >> ELSE pool.allocations[i]] \o << >>,
     total_allocated |->
        IF pool.total_allocated < Len(indices) THEN 0
        ELSE pool.total_allocated - Len(indices)]

\* ParticlePool::free_system
free_system(pool, system_id) ==
    free_each(pool, to_free(pool.allocations, system_id),
              {idx \in 0..(Len(pool.allocations) - 1) :
                  pool.allocations[idx + 1] = <<system_id>>})

\* get_free_count
get_free_count(pool) == Len(pool.free_indices)

\* get_allocated_count
get_allocated_count(pool) == pool.total_allocated

\* calls the host makes on a pool
MaxPoolCalls == 4

\* the systems that allocate
SystemIds == {1, 2}

\* the block sizes asked for: a small one and all but one of the pool
BlockSizes == {2, POOL_SIZE - 1}

\* the indices freed: the first two, the last, one past the end
FreedIndices == {0, 1, POOL_SIZE - 1, POOL_SIZE}

\* the slices freed: one with a repeated index, one with an index out of
\* range
FreedBlocks == {<<1, 0, 1>>, <<POOL_SIZE, 2>>}

InitPool ==
    /\ NoStarField
    /\ call = <<[fn |-> "new", arg |-> 0, before |-> ParticlePool_new,
                 returned |-> << >>, serial |-> 0]>>
    /\ render_pipeline = << >>
    /\ meteor_system = << >>
    /\ particle_pool = <<ParticlePool_new>>
    /\ particle_system = << >>
    /\ scatter_text = << >>
    /\ memory_pool = << >>

\* the outcome of a call on the pool: the pool, and what the host notes of
\* the call (arg is its count, index, slice or system, before the pool it
\* was made on)
PoolCallDone(fn, arg, pool, returned) ==
    /\ call[1].serial < MaxPoolCalls
    /\ particle_pool' = <<pool>>
    /\ call' = <<[fn |-> fn, arg |-> arg, before |-> particle_pool[1],
                  returned |-> returned, serial |-> call[1].serial + 1]>>
    /\ UNCHANGED <<star_field_vars, render_pipeline, meteor_system,
                   particle_system, scatter_text, memory_pool>>

\* the outcome of an allocating call
PoolAllocationDone(fn, arg, result) ==
    PoolCallDone(fn, arg, result.pool, result.returned)

Allocate ==
    \E system_id \in SystemIds :
        PoolAllocationDone("allocate", system_id,
                           allocate(particle_pool[1], system_id))

AllocateBlock ==
    \E count \in BlockSizes, system_id \in SystemIds :
        PoolAllocationDone("allocate_block", count,
                           allocate_block(particle_pool[1], count, system_id))

Free ==
    \E index \in FreedIndices :
        PoolCallDone("free", index, free(particle_pool[1], index), << >>)

FreeBlock ==
    \E indices \in FreedBlocks :
        PoolCallDone("free_block", indices,
                     free_block(particle_pool[1], indices), << >>)

FreeSystem ==
    \E system_id \in SystemIds :
        PoolCallDone("free_system", system_id,
                     free_system(particle_pool[1], system_id), << >>)

NextPool == Allocate \/ AllocateBlock \/ Free \/ FreeBlock \/ FreeSystem

SpecPool == InitPool /\ [][NextPool]_vars

\* ------------------------------------------------------------------------
\* particle_system.rs: the particle system of the meteors
\* ------------------------------------------------------------------------
\* Of a Particle the model keeps the active flag, the life, the opacity and
\* the red channel; positions and velocities are read by no decision.  A
\* HashMap is a function over the set of its keys.

\* IEEE <=
FLe(a, b) == ~IsNaN(a) /\ ~IsNaN(b) /\ a <= b

RECURSIVE Pow(_, _)
\* a to the n-th power, n >= 1
Pow(a, n) == IF n = 1 THEN a ELSE FMul(a, Pow(a, n - 1))

RECURSIVE PowfSearch(_, _, _)
\* the least r of [lo, hi] with r ^ 10 >= cube
PowfSearch(cube, lo, hi) ==
    IF lo >= hi THEN lo
    ELSE IF Pow((lo + hi) \div 2, 10) >= cube
         THEN PowfSearch(cube, lo, (lo + hi) \div 2)
         ELSE PowfSearch(cube, (lo + hi) \div 2 + 1, hi)

\* f32::powf(a, 0.3) for a <= 1.0: NaN for a negative base, else the r with
\* r ^ 10 = a ^ 3
F32Powf03(a) ==
    IF IsNaN(a) THEN NaN
    ELSE IF a < 0 THEN NaN
    ELSE PowfSearch(Pow(a, 3), 0, SCALE)

\* Particle::default() of particle_system.rs
SystemParticle_default ==
    [active |-> FALSE, opacity |-> F32(0), life |-> F32(0), color_r |-> 255]

\* ParticleSystem::new
ParticleSystem_new(max_particles) ==
    [particles |-> [i \in 1..max_particles |-> SystemParticle_default],
     free_indices |-> [i \in 1..max_particles |-> i - 1],
     meteor_associations |-> << >>,
     active_count |-> 0,
     has_new_spawns |-> FALSE,
     max_particles |-> max_particles]

\* the red channel of a meteor type: cool, warm, bright
type_color_r(meteor_type) == IF meteor_type = 0 THEN 100 ELSE 255

\* .entry(meteor_id).or_insert_with(Vec::new).push(index)
associate(associations, meteor_id, index) ==
    [k \in DOMAIN associations \cup {meteor_id} |->
        IF k = meteor_id
        THEN IF k \in DOMAIN associations
             THEN Append(associations[k], index)
             ELSE <<index>>
        ELSE associations[k]]

\* ParticleSystem::spawn_for_meteor
spawn_for_meteor(system, meteor_id, meteor_type) ==
    IF Len(system.free_indices) = 0
    THEN [system |-> system, returned |-> FALSE]
    ELSE [system |->
             [system EXCEPT
                 !.free_indices = Tail(system.free_indices),
                 !.particles[system.free_indices[1] + 1] =
                     [active |-> TRUE, opacity |-> Dec(0, 6400),
                      life |-> F32(0),
                      color_r |-> type_color_r(meteor_type)],
                 !.meteor_associations =
                     associate(system.meteor_associations, meteor_id,
                               system.free_indices[1]),
                 !.active_count = system.active_count + 1,
                 !.has_new_spawns = TRUE],
          returned |-> TRUE]

\* indices.iter().position(|&i| i == index), for an index the list holds
position(indices, index) ==
    CHOOSE pos \in 1..Len(indices) :
        /\ indices[pos] = index
        /\ \A before \in 1..(pos - 1) : indices[before] # index

\* Vec::swap_remove: the last element takes the place of the removed one
swap_remove(indices, pos) ==
    IF pos = Len(indices) THEN SubSeq(indices, 1, Len(indices) - 1)
    ELSE SubSeq(indices, 1, pos - 1) \o <<indices[Len(indices)]>>
             \o SubSeq(indices, pos + 1, Len(indices) - 1)

\* the keys whose list holds the index
holders(associations, index) ==
    {k \in DOMAIN associations :
        \E pos \in 1..Len(associations[k]) : associations[k][pos] = index}

\* the first key of a set in the order the HashMap yields its entries
first_key(keys, iteration) ==
    CHOOSE k \in keys :
        \A o \in keys : IF iteration = "ascending" THEN k <= o ELSE k >= o

\* the index is removed from the list of one key
remove_from(associations, key, index) ==
    [associations EXCEPT
        ![key] = swap_remove(associations[key],
                             position(associations[key], index))]

\* "Remove from associations": the index leaves the first list that holds it
dissociate(associations, index, iteration) ==
    IF holders(associations, index) = {} THEN associations
    ELSE remove_from(associations,
                     first_key(holders(associations, index), iteration),
                     index)

\* a free_particle that leaves the associations as they are
free_particle_still_associated(system, index, iteration) ==
    IF ~system.particles[index + 1].active THEN system
    ELSE [system EXCEPT
             !.particles[index + 1].active = FALSE,
             !.free_indices = Append(system.free_indices, index),
             !.active_count = system.active_count - 1]

\* ParticleSystem::free_particle
free_particle(system, index, iteration) ==
    IF ~system.particles[index + 1].active THEN system
    ELSE [system EXCEPT
             !.particles[index + 1].active = FALSE,
             !.free_indices = Append(system.free_indices, index),
             !.active_count = system.active_count - 1,
             !.meteor_associations =
                 dissociate(system.meteor_associations, index, iteration)]

\* the particle after the physics and fade of update_all, life being the
\* new life
aged_particle(particle, life) ==
    [particle EXCEPT
        !.life = life,
        !.opacity =
            FMul(Dec(0, 6400),
                 F32Powf03(FSub(F32(1), FDiv(life, F32(50)))))]

\* the body of the loop of update_all once particle i is aged
expire_particle(system, i, iteration) ==
    IF \/ FGe(system.particles[i + 1].life, F32(50))
       \/ FLe(system.particles[i + 1].opacity, Dec(0, 100))
    THEN free_particle(system, i, iteration)
    ELSE system

\* the body of the loop of update_all for particle i
update_particle_at(system, i, dt, iteration) ==
    IF ~system.particles[i + 1].active THEN system
    ELSE expire_particle(
             [system EXCEPT !.particles[i + 1] =
                 aged_particle(system.particles[i + 1],
                               FAdd(system.particles[i + 1].life, dt))],
             i, iteration)

RECURSIVE update_all_from(_, _, _, _)
\* the loop of update_all from particle i on
update_all_from(system, i, dt, iteration) ==
    IF i >= Len(system.particles) THEN system
    ELSE update_all_from(update_particle_at(system, i, dt, iteration),
                         i + 1, dt, iteration)

\* ParticleSystem::update_all
ParticleSystem_update_all(system, dt, iteration) ==
    update_all_from([system EXCEPT !.has_new_spawns = FALSE], 0, dt,
                    iteration)

RECURSIVE free_particles_from(_, _, _, _)
\* the loop of free_meteor_particles from element k of the removed list on
free_particles_from(system, indices, k, iteration) ==
    IF k > Len(indices) THEN system
    ELSE free_particles_from(free_particle(system, indices[k], iteration),
                             indices, k + 1, iteration)

\* ParticleSystem::free_meteor_particles
free_meteor_particles(system, meteor_id, iteration) ==
    IF meteor_id \notin DOMAIN system.meteor_associations THEN system
    ELSE free_particles_from(
             [system EXCEPT !.meteor_associations =
                 [k \in DOMAIN system.meteor_associations \ {meteor_id} |->
                     system.meteor_associations[k]]],
             system.meteor_associations[meteor_id], 1, iteration)

\* capacity of the particle system the host constructs
MaxParticles == 3

\* the meteors the host spawns particles for
MeteorIds == {0, 1}

\* the type of a meteor: meteor 0 is cool, meteor 1 bright
TypeOf(meteor_id) == 2 * meteor_id

\* the frame times of the host
FrameTimes == {F32(30)}

InitParticles ==
    /\ NoStarField
    /\ call = << >>
    /\ render_pipeline = << >>
    /\ meteor_system = << >>
    /\ particle_pool = << >>
    /\ particle_system = <<ParticleSystem_new(MaxParticles)>>
    /\ scatter_text = << >>
    /\ memory_pool = << >>

\* the outcome of a call on the particle system
ParticlesCallDone(fn, system, returned) ==
    /\ particle_system' = <<system>>
    /\ call' = <<[fn |-> fn, returned |-> returned]>>
    /\ UNCHANGED <<star_field_vars, render_pipeline, meteor_system,
                   particle_pool, scatter_text, memory_pool>>

\* the outcome of a spawn_for_meteor call
SpawnedForMeteor(result) ==
    ParticlesCallDone("spawn_for_meteor", result.system, result.returned)

SpawnForMeteor ==
    \E meteor_id \in MeteorIds :
        SpawnedForMeteor(spawn_for_meteor(particle_system[1], meteor_id,
                                          TypeOf(meteor_id)))

ParticlesUpdateAll ==
    \E dt \in FrameTimes, iteration \in Iterations :
        ParticlesCallDone("update_all",
                          ParticleSystem_update_all(particle_system[1], dt,
                                                    iteration),
                          TRUE)

FreeMeteorParticles ==
    \E meteor_id \in MeteorIds, iteration \in Iterations :
        ParticlesCallDone("free_meteor_particles",
                          free_meteor_particles(particle_system[1],
                                                meteor_id, iteration),
                          TRUE)

NextParticles == SpawnForMeteor \/ ParticlesUpdateAll \/ FreeMeteorParticles

SpecParticles == InitParticles /\ [][NextParticles]_vars
\* ------------------------------------------------------------------------
\* scatter_text.rs: the particles that form and scatter a text
\* ------------------------------------------------------------------------

\* the largest number of particles set_text_pixels creates
MAX_PARTICLES == 10000

\* f32::max(a, b): the operand that is a number when the other is not
FMax(a, b) == IF IsNaN(a) THEN b ELSE IF IsNaN(b) THEN a ELSE IF a < b THEN b ELSE a

\* f32x4_max on one lane: NaN when an operand is NaN
f32x4_max(a, b) == IF IsNaN(a) \/ IsNaN(b) THEN NaN ELSE IF a < b THEN b ELSE a

\* f32::clamp(a, lo, hi): NaN stays NaN
FClamp(a, lo, hi) == IF IsNaN(a) THEN NaN ELSE IF a < lo THEN lo ELSE IF a > hi THEN hi ELSE a

\* the state initialize_scatter_text stores: every array has the length
\* max_particles rounded up to a multiple of 16, one flag word per 64
\* slots; simd tells whether the build has the feature "simd".  The
\* positions and the scatter velocities, which are drawn from
\* Math.random and read by no decision, are left out.
initialize_scatter_text(max_particles, simd) ==
    [target_x |-> [i \in 1..(DivCeil(max_particles, SIMD_BATCH_SIZE) * SIMD_BATCH_SIZE) |-> F32(0)] \o << >>,
     target_y |-> [i \in 1..(DivCeil(max_particles, SIMD_BATCH_SIZE) * SIMD_BATCH_SIZE) |-> F32(0)] \o << >>,
     colors_r |-> [i \in 1..(DivCeil(max_particles, SIMD_BATCH_SIZE) * SIMD_BATCH_SIZE) |-> F32(1)] \o << >>,
     opacity |-> [i \in 1..(DivCeil(max_particles, SIMD_BATCH_SIZE) * SIMD_BATCH_SIZE) |-> F32(1)] \o << >>,
     scattered_flags |-> [w \in 1..DivCeil(DivCeil(max_particles, SIMD_BATCH_SIZE) * SIMD_BATCH_SIZE, 64) |-> {}] \o << >>,
     particle_count |-> 0,
     forming |-> FALSE,
     easing_factor |-> Dec(0, 800),
     fade_rate |-> Dec(0, 200),
     scatter_speed |-> Dec(3, 0),
     simd |-> simd]

\* the scattered flags, all cleared
cleared_flags(state) == [w \in 1..Len(state.scattered_flags) |-> {}] \o << >>

\* the body of the pixel loop of set_text_pixels for a visible pixel at
\* (x, y) whose first byte is at index: target, color, opacity of the
\* particle particle_index
write_particle(state, pixel_data, index, x, y, particle_index) ==
    [state EXCEPT !.target_x[particle_index + 1] = F32(x),
                  !.target_y[particle_index + 1] = F32(y),
                  !.colors_r[particle_index + 1] = (pixel_data[index + 1] * SCALE) \div 255,
                  !.opacity[particle_index + 1] = F32(1)]

\* a pixel is sampled and visible: its alpha byte lies in the data and is
\* above 128
visible_pixel(pixel_data, index) ==
    IF index + 3 < Len(pixel_data) THEN pixel_data[index + 4] > 128 ELSE FALSE

\* the pixel loops of set_text_pixels from the sample numbered sample on,
\* the samples taken row by row, columns of them in a row and samples of
\* them in all; a write past the end of an array panics and ends the loops
RECURSIVE sample_pixels_from(_, _, _, _, _, _, _, _)
sample_pixels_from(state, pixel_data, width, skip, columns, samples, sample, particle_index) ==
    IF sample >= samples
    THEN [state |-> state, particle_index |-> particle_index, panicked |-> FALSE]
    ELSE IF /\ visible_pixel(pixel_data, ((sample \div columns) * skip * width + (sample % columns) * skip) * 4)
            /\ particle_index < MAX_PARTICLES
         THEN IF particle_index >= Len(state.target_x)
              THEN [state |-> state, particle_index |-> particle_index, panicked |-> TRUE]
              ELSE sample_pixels_from(
                       write_particle(state, pixel_data,
                           ((sample \div columns) * skip * width + (sample % columns) * skip) * 4,
                           (sample % columns) * skip, (sample \div columns) * skip,
                           particle_index),
                       pixel_data, width, skip, columns, samples, sample + 1,
                       particle_index + 1)
         ELSE sample_pixels_from(state, pixel_data, width, skip, columns,
                                 samples, sample + 1, particle_index)

\* the end of set_text_pixels: the particle count and the forming phase
\* are stored unless the loops panicked
pixels_sampled(sampled) ==
    [state |-> IF sampled.panicked
               THEN sampled.state
               ELSE [sampled.state EXCEPT !.particle_count = sampled.particle_index,
                                          !.forming = TRUE],
     returned |-> sampled.particle_index,
     panicked |-> sampled.panicked]

\* set_text_pixels(pixel_data, width, height, _, _, skip): clear the
\* flags, make a particle of every sampled visible pixel
set_text_pixels(state, pixel_data, width, height, skip) ==
    pixels_sampled(
        sample_pixels_from([state EXCEPT !.scattered_flags = cleared_flags(state)],
                           pixel_data, width, skip, DivCeil(width, skip),
                           DivCeil(width, skip) * DivCeil(height, skip), 0, 0))

\* start_forming
start_forming(state) ==
    [state EXCEPT !.forming = TRUE, !.scattered_flags = cleared_flags(state)]

\* start_scattering
start_scattering(state) == [state EXCEPT !.forming = FALSE]

\* the opacity update_particle_scalar (batch false) or
\* update_particle_batch_simd (batch true) leaves in slot index
new_opacity(state, index, batch) ==
    IF state.forming
    THEN F32(1)
    ELSE IF batch
         THEN f32x4_max(FSub(state.opacity[index + 1], state.fade_rate), F32(0))
         ELSE FMax(FSub(state.opacity[index + 1], state.fade_rate), F32(0))

\* the particles update_particles hands to update_particle_batch_simd:
\* those of the full batches of 16, in a build with the feature
batched(state) ==
    IF state.simd
    THEN 0..((state.particle_count \div SIMD_BATCH_SIZE) * SIMD_BATCH_SIZE - 1)
    ELSE {}

\* the flag word after update_particle_scalar ran on those of its slots
\* that are below the particle count and in no batch: forming clears the
\* bit, scattering sets it
new_flags(state, word, in_batch) ==
    IF state.forming
    THEN {b \in state.scattered_flags[word + 1] :
              \/ word * 64 + b >= state.particle_count
              \/ word * 64 + b \in in_batch}
    ELSE state.scattered_flags[word + 1] \cup
             {b \in 0..63 : /\ word * 64 + b < state.particle_count
                            /\ word * 64 + b \notin in_batch}

\* update_particles(delta_time): nothing without particles; else the
\* batches, then update_particle_scalar on the remaining particles.  The
\* loops are summarised slot by slot: each slot is read and written by its
\* own step only.
scatter_update_particles(state, delta_time) ==
    IF state.particle_count = 0
    THEN [state |-> state, panicked |-> FALSE]
    ELSE IF state.particle_count > Len(state.opacity)
         THEN [state |-> state, panicked |-> TRUE]
         ELSE [state |->
                  [state EXCEPT
                      !.opacity =
                          [i \in 1..Len(state.opacity) |->
                              IF i - 1 < state.particle_count
                              THEN new_opacity(state, i - 1, (i - 1) \in batched(state))
                              ELSE state.opacity[i]] \o << >>,
                      !.scattered_flags =
                          [w \in 1..Len(state.scattered_flags) |->
                              new_flags(state, w - 1, batched(state))] \o << >>],
               panicked |-> FALSE]

\* set_fade_rate(rate)
set_fade_rate(state, rate) ==
    [state EXCEPT !.fade_rate = FClamp(rate, Dec(0, 10), Dec(0, 1000))]

\* ------------------------------------------------------------------------
\* the host of the scatter text
\* ------------------------------------------------------------------------

\* the most batches of 16 the host asks room for
MaxBatches == 2

\* the particle numbers the host initializes with: one short of a batch
\* boundary and one past the one before
Capacities == {SIMD_BATCH_SIZE * b + 1 : b \in 0..(MaxBatches - 1)}

\* an image of pixels whose four bytes are all 255
Opaque(width, height) ==
    [pixel_data |-> [k \in 1..(4 * width * height) |-> 255] \o << >>,
     width |-> width, height |-> height]

\* an image whose pixels are by turns opaque and of alpha 128
Striped(width, height) ==
    [pixel_data |-> [k \in 1..(4 * width * height) |->
                        IF ((k - 1) \div 4) % 2 = 0 THEN 255 ELSE 128] \o << >>,
     width |-> width, height |-> height]

\* an image whose data end before its last row
Truncated(width, height) ==
    [pixel_data |-> [k \in 1..(4 * width * (height - 1)) |-> 255] \o << >>,
     width |-> width, height |-> height]

\* the images the host passes: a row one pixel longer than the smallest
\* capacity, stripes, a truncated one, an empty one
Images ==
    {Opaque(SIMD_BATCH_SIZE + 1, 1), Striped(4, 2), Truncated(3, 3),
     Opaque(0, 0)}

\* the sampling steps of the host
Skips == {1, 2}

\* the fade rates the host sets: above the range, not a number
FadeRates == {F32(1), NaN}

\* the texts the host sets in one run
MaxTexts == 1

InitScatter ==
    /\ NoStarField
    /\ render_pipeline = << >>
    /\ meteor_system = << >>
    /\ particle_pool = << >>
    /\ particle_system = << >>
    /\ scatter_text \in {<<initialize_scatter_text(max_particles, simd)>> :
                            max_particles \in Capacities, simd \in BOOLEAN}
    /\ memory_pool = << >>
    /\ call = <<[fn |-> "initialize_scatter_text", before |-> scatter_text[1],
                 returned |-> 0, panicked |-> FALSE, texts |-> 0]>>

\* a call on the scatter text returned or panicked; nothing runs after a
\* panic
ScatterCallDone(fn, state, returned, panicked) ==
    /\ ~call[1].panicked
    /\ scatter_text' = <<state>>
    /\ call' = <<[fn |-> fn, before |-> scatter_text[1],
                  returned |-> returned, panicked |-> panicked,
                  texts |-> IF fn = "set_text_pixels"
                            THEN call[1].texts + 1
                            ELSE call[1].texts]>>
    /\ UNCHANGED <<star_field_vars, render_pipeline, meteor_system,
                   particle_pool, particle_system, memory_pool>>

\* the outcome of a set_text_pixels call
TextPixelsSet(result) ==
    ScatterCallDone("set_text_pixels", result.state, result.returned,
                    result.panicked)

SetTextPixels ==
    \E image \in Images, skip \in Skips :
        /\ call[1].texts < MaxTexts
        /\ TextPixelsSet(set_text_pixels(scatter_text[1], image.pixel_data,
                                         image.width, image.height, skip))

StartForming ==
    ScatterCallDone("start_forming", start_forming(scatter_text[1]), 0, FALSE)

StartScattering ==
    ScatterCallDone("start_scattering", start_scattering(scatter_text[1]), 0,
                    FALSE)

\* the outcome of an update_particles call
ParticlesUpdated(result) ==
    ScatterCallDone("update_particles", result.state, 0, result.panicked)

ScatterUpdateParticles ==
    ParticlesUpdated(scatter_update_particles(scatter_text[1], Dec(0, 160)))

SetFadeRate ==
    \E rate \in FadeRates :
        ScatterCallDone("set_fade_rate", set_fade_rate(scatter_text[1], rate),
                        0, FALSE)

NextScatter ==
    \/ SetTextPixels
    \/ StartForming
    \/ StartScattering
    \/ ScatterUpdateParticles
    \/ SetFadeRate

SpecScatter == InitScatter /\ [][NextScatter]_vars

\* ------------------------------------------------------------------------
\* memory.rs: shared buffers and the pool of them
\* ------------------------------------------------------------------------

\* f32::sqrt: NaN below zero
sqrt(a) == IF FLt(a, F32(0)) THEN NaN ELSE F32Sqrt(a)

\* SharedBuffer::new(size): size zeros
SharedBuffer_new(size) == [data |-> [i \in 1..size |-> F32(0)] \o << >>]

\* SharedBuffer::write(data, offset): copy as much of data as fits from
\* offset on; an offset past the end panics (the subtraction overflows, or
\* the slice that follows is out of range)
write(buffer, data, offset) ==
    IF offset > Len(buffer.data)
    THEN [buffer |-> buffer, panicked |-> TRUE]
    ELSE [buffer |->
             [data |->
                 [i \in 1..Len(buffer.data) |->
                     IF /\ i - 1 >= offset
                        /\ i - 1 < offset + Min(Len(data), Len(buffer.data) - offset)
                     THEN data[i - offset]
                     ELSE buffer.data[i]] \o << >>],
          panicked |-> FALSE]

\* the match of SharedBuffer::apply_operation on one element
apply_to_value(val, op) ==
    CASE op = "sin" -> F32Sin(val)
      [] op = "cos" -> F32Cos(val)
      [] op = "square" -> FMul(val, val)
      [] op = "sqrt" -> sqrt(val)
      [] OTHER -> val

\* SharedBuffer::apply_operation(op)
apply_operation(buffer, op) ==
    [data |-> [i \in 1..Len(buffer.data) |-> apply_to_value(buffer.data[i], op)] \o << >>]

\* MemoryPool::new(buffer_size, pool_size): pool_size zeroed buffers, all
\* available, in the order of their indices
MemoryPool_new(buffer_size, pool_size) ==
    [buffers |-> [i \in 1..pool_size |-> SharedBuffer_new(buffer_size)] \o << >>,
     available |-> [i \in 1..pool_size |-> i - 1] \o << >>,
     buffer_size |-> buffer_size]

\* MemoryPool::acquire: pop the last available index
acquire(pool) ==
    IF Len(pool.available) = 0
    THEN [pool |-> pool, returned |-> << >>]
    ELSE [pool |-> [pool EXCEPT !.available = SubSeq(pool.available, 1, Len(pool.available) - 1)],
          returned |-> <<pool.available[Len(pool.available)]>>]

\* pool.available.contains(&index)
is_available(pool, index) == \E k \in 1..Len(pool.available) : pool.available[k] = index

\* MemoryPool::release(index): clear the buffer and push its index, unless
\* the index is out of range or already available
release(pool, index) ==
    IF index < Len(pool.buffers) /\ ~is_available(pool, index)
    THEN [pool EXCEPT !.buffers[index + 1] = SharedBuffer_new(Len(pool.buffers[index + 1].data)),
                      !.available = Append(pool.available, index)]
    ELSE pool

\* the pool with the outcome of SharedBuffer::write stored at index
buffer_written(pool, index, written) ==
    [pool |-> [pool EXCEPT !.buffers[index + 1] = written.buffer],
     returned |-> TRUE,
     panicked |-> written.panicked]

\* MemoryPool::write_to_buffer(index, data, offset)
write_to_buffer(pool, index, data, offset) ==
    IF index < Len(pool.buffers)
    THEN buffer_written(pool, index, write(pool.buffers[index + 1], data, offset))
    ELSE [pool |-> pool, returned |-> FALSE, panicked |-> FALSE]

\* MemoryPool::apply_operation_to_buffer(index, operation)
apply_operation_to_buffer(pool, index, operation) ==
    IF index < Len(pool.buffers)
    THEN [pool |-> [pool EXCEPT !.buffers[index + 1] = apply_operation(pool.buffers[index + 1], operation)],
          returned |-> TRUE]
    ELSE [pool |-> pool, returned |-> FALSE]

\* ------------------------------------------------------------------------
\* the host of the memory pool
\* ------------------------------------------------------------------------

\* the length of a buffer of the host's pool
BufferSize == 2

\* the number of buffers of the host's pool
MaxBuffers == 2

\* the calls the host makes on the pool
MaxBufferCalls == 4

\* the indices the host passes: those of the pool and the one past them
BufferIndices == 0..MaxBuffers

\* the data the host writes: shorter than a buffer, longer than one
WrittenData == {<<F32(1)>>, [i \in 1..(BufferSize + 1) |-> F32(i)] \o << >>}

\* the offsets the host writes at: the start, the last element, past the end
WriteOffsets == {0, BufferSize - 1, BufferSize + 1}

\* the operations the host asks for
Operations == {"cos", "square", "sqrt", "sin", "negate"}

InitMemory ==
    /\ NoStarField
    /\ render_pipeline = << >>
    /\ meteor_system = << >>
    /\ particle_pool = << >>
    /\ particle_system = << >>
    /\ scatter_text = << >>
    /\ memory_pool = <<MemoryPool_new(BufferSize, MaxBuffers)>>
    /\ call = <<[fn |-> "new", returned |-> << >>, panicked |-> FALSE,
                 serial |-> 0]>>

\* a call on the memory pool returned or panicked; nothing runs after a
\* panic
MemoryCallDone(fn, pool, returned, panicked) ==
    /\ ~call[1].panicked
    /\ call[1].serial < MaxBufferCalls
    /\ memory_pool' = <<pool>>
    /\ call' = <<[fn |-> fn, returned |-> returned, panicked |-> panicked,
                  serial |-> call[1].serial + 1]>>
    /\ UNCHANGED <<star_field_vars, render_pipeline, meteor_system,
                   particle_pool, particle_system, scatter_text>>

\* the outcome of an acquire call
Acquired(result) == MemoryCallDone("acquire", result.pool, result.returned, FALSE)

Acquire == Acquired(acquire(memory_pool[1]))

Release ==
    \E index \in BufferIndices :
        MemoryCallDone("release", release(memory_pool[1], index), << >>, FALSE)

\* the outcome of a write_to_buffer call
Written(result) ==
    MemoryCallDone("write_to_buffer", result.pool, <<result.returned>>,
                   result.panicked)

WriteToBuffer ==
    \E index \in BufferIndices, data \in WrittenData, offset \in WriteOffsets :
        Written(write_to_buffer(memory_pool[1], index, data, offset))

\* the outcome of an apply_operation_to_buffer call
Applied(result) ==
    MemoryCallDone("apply_operation_to_buffer", result.pool,
                   <<result.returned>>, FALSE)

ApplyOperationToBuffer ==
    \E index \in BufferIndices, operation \in Operations :
        Applied(apply_operation_to_buffer(memory_pool[1], index, operation))

NextMemory == Acquire \/ Release \/ WriteToBuffer \/ ApplyOperationToBuffer

SpecMemory == InitMemory /\ [][NextMemory]_vars


\* ------------------------------------------------------------------------
\* properties
\* ------------------------------------------------------------------------

\* the seven buffers the generation stage fills, and all nine f32 buffers
GeneratedBuffers ==
    {"positions_x", "positions_y", "positions_z",
     "colors_r", "colors_g", "colors_b", "sizes"}

FloatBuffers == GeneratedBuffers \cup {"twinkles", "sparkles"}

\* s lists every index 0 .. n - 1 exactly once
ListsEachOnce(s, n) ==
    /\ Len(s) = n
    /\ {s[k] : k \in 1..n} = 0..(n - 1)

\* the pool holds its count stars in nine arrays of the length capacity,
\* the count rounded up to a multiple of 16, and a mask of
\* ceil(capacity / 64) words
PoolShaped(pool, capacity) ==
    /\ capacity % 16 = 0
    /\ pool.count <= capacity
    /\ capacity < pool.count + 16
    /\ \A b \in FloatBuffers : Len(pool[b]) = capacity
    /\ Len(pool.visibility_mask) * 64 >= capacity
    /\ (Len(pool.visibility_mask) - 1) * 64 < capacity

\* a frame update has written the effects of the live pool
Updated ==
    /\ Len(STAR_MEMORY_POOL) = 1
    /\ Len(frame_result) = 1
    /\ frame_result[1].effects_dirty

\* C1: after every step the nine f32 arrays of the live pool have the
\* length capacity, the star count rounded up to a multiple of 16, the mask
\* has ceil(capacity / 64) words and count <= capacity; and
\* initialize_star_memory_pool(c) stores c as the count of the pool and of
\* the pointers it returns
C1_PoolShape ==
    [][/\ Len(STAR_MEMORY_POOL') = 1 =>
              PoolShaped(STAR_MEMORY_POOL'[1],
                         Len(STAR_MEMORY_POOL'[1].positions_x))
       /\ \A c \in Counts :
              initialize_star_memory_pool(c) =>
                  /\ STAR_MEMORY_POOL'[1].count = c
                  /\ pointers'[1].count = c]_vars

\* a pool of more than one chunk with a scalar remainder, after a frame
\* update at a nonzero time
C1_Witness ==
    /\ Updated
    /\ STAR_MEMORY_POOL[1].count > 16
    /\ STAR_MEMORY_POOL[1].count % 16 # 0
    /\ Len(STAR_MEMORY_POOL[1].positions_x) > STAR_MEMORY_POOL[1].count
    /\ writes.time # F32(0)

\* C2: whatever frame updates have run, positions, colors, sizes and count
\* of the live pool are those initialize_star_memory_pool wrote and handed
\* to the host
C2_GeneratedDataKept ==
    Len(STAR_MEMORY_POOL) = 1 =>
        /\ \A b \in GeneratedBuffers :
               STAR_MEMORY_POOL[1][b] =
                   built_pools[pointers[1].count,
                               pointers[1].positions_x_ptr].pool[b]
        /\ STAR_MEMORY_POOL[1].count = pointers[1].count

\* a frame update has changed twinkles and sparkles of a pool with stars
C2_Witness ==
    /\ Updated
    /\ STAR_MEMORY_POOL[1].count > 16
    /\ STAR_MEMORY_POOL[1].twinkles #
           built_pools[pointers[1].count,
                       pointers[1].positions_x_ptr].pool.twinkles
    /\ \E n \in 1..STAR_MEMORY_POOL[1].count :
           STAR_MEMORY_POOL[1].sparkles[n] # F32(0)

\* C3: the addresses and lengths the host holds are those of the buffers
\* of the live pool after every step, and a step that is not an
\* initialization changes none of them
C3_PointersStable ==
    [][/\ Len(STAR_MEMORY_POOL') = 1 =>
              pointers' = <<get_pointers(STAR_MEMORY_POOL'[1])>>
       /\ (Len(STAR_MEMORY_POOL) = 1 /\ next_alloc' = next_alloc) =>
              /\ pointers' = pointers
              /\ STAR_MEMORY_POOL'[1].ptr = STAR_MEMORY_POOL[1].ptr
              /\ \A b \in FloatBuffers :
                     Len(STAR_MEMORY_POOL'[1][b]) =
                         Len(STAR_MEMORY_POOL[1][b])]_vars

\* a second pool, at other addresses than the first, after a frame update
C3_Witness ==
    /\ Updated
    /\ STAR_MEMORY_POOL[1].count > 0
    /\ STAR_MEMORY_POOL[1].ptr[1] # 0
    /\ pointers[1].twinkles_ptr = STAR_MEMORY_POOL[1].ptr[8]
    /\ writes.time # F32(0)

C5_RemainderMatchesBatch ==
    Len(STAR_MEMORY_POOL) = 1 =>
        \A i \in ((STAR_MEMORY_POOL[1].count \div 16) * 16)
                     ..(STAR_MEMORY_POOL[1].count - 1) :
            /\ STAR_MEMORY_POOL[1].positions_x[i + 1] =
                   positions_simd_chunk(i \div 16, Dec(20, 0), Dec(150, 0))
                       .x_vec[(i % 16) + 1]
            /\ STAR_MEMORY_POOL[1].positions_y[i + 1] =
                   positions_simd_chunk(i \div 16, Dec(20, 0), Dec(150, 0))
                       .y_vec[(i % 16) + 1]
            /\ STAR_MEMORY_POOL[1].positions_z[i + 1] =
                   positions_simd_chunk(i \div 16, Dec(20, 0), Dec(150, 0))
                       .z_vec[(i % 16) + 1]
            /\ <<STAR_MEMORY_POOL[1].colors_r[i + 1],
                 STAR_MEMORY_POOL[1].colors_g[i + 1],
                 STAR_MEMORY_POOL[1].colors_b[i + 1]>> =
                   colors_simd_chunk(i \div 16)[(i % 16) + 1]
            /\ STAR_MEMORY_POOL[1].sizes[i + 1] =
                   sizes_simd_chunk(i \div 16, Dec(1, 0))[(i % 16) + 1]

\* 32 stars, all at x, y
StarsAt(v) == [n \in 1..(2 * 16) |-> v]

\* the twinkle and sparkle each path of the effect engine computes for a
\* star at x, y: the scalar loop, the two chunks of the unrolled loop, the
\* single-chunk loop
EffectsOfPaths(x, y, t) ==
    {<<effects_scalar(x, y, t).twinkle, effects_scalar(x, y, t).sparkle>>,
     <<effects_unrolled_chunk1(StarsAt(x), StarsAt(y), 0, t)
           .twinkle_array[1],
       effects_unrolled_chunk1(StarsAt(x), StarsAt(y), 0, t)
           .sparkle_array[1]>>,
     <<effects_unrolled_chunk2(StarsAt(x), StarsAt(y), 0, t)
           .twinkle_array[1],
       effects_unrolled_chunk2(StarsAt(x), StarsAt(y), 0, t)
           .sparkle_array[1]>>,
     <<effects_remaining_chunk(StarsAt(x), StarsAt(y), 0, t)
           .twinkle_array[1],
       effects_remaining_chunk(StarsAt(x), StarsAt(y), 0, t)
           .sparkle_array[1]>>}

\* C6: after a frame update every star below count was written exactly
\* once, and its twinkle and sparkle are the single pair all four paths of
\* the effect engine compute for its x, y and the frame time
C6_EffectsPathIndependent ==
    Updated =>
        /\ ListsEachOnce(writes.effects, STAR_MEMORY_POOL[1].count)
        /\ \A i \in 0..(STAR_MEMORY_POOL[1].count - 1) :
               EffectsOfPaths(STAR_MEMORY_POOL[1].positions_x[i + 1],
                              STAR_MEMORY_POOL[1].positions_y[i + 1],
                              writes.time) =
                   {<<STAR_MEMORY_POOL[1].twinkles[i + 1],
                      STAR_MEMORY_POOL[1].sparkles[i + 1]>>}

\* a frame update that ran the unrolled loop, the single-chunk loop and
\* the scalar loop, and left a sparkle in a chunk and in the remainder
C6_Witness ==
    /\ Updated
    /\ STAR_MEMORY_POOL[1].count > 3 * 16
    /\ \E n \in 1..(3 * 16) : STAR_MEMORY_POOL[1].sparkles[n] # F32(0)
    /\ \E n \in (3 * 16 + 1)..STAR_MEMORY_POOL[1].count :
           STAR_MEMORY_POOL[1].sparkles[n] # F32(0)

\* C7: lane k of seed_random_simd_batch_16(start) is seed_random(start + k)
\* and element k of seed_random_batch(start, 16)
C7_LanesMatchScalar ==
    (/\ Len(call) = 1
     /\ call[1].fn = "seed_random_simd_batch_16"
     /\ call[1].returned) =>
        /\ \A k \in 0..15 :
               call[1].result[k + 1] = seed_random(call[1].start + k)
        /\ call[1].result = seed_random_batch(call[1].start, 16)

\* C8 as stated: the generation stage writes position, color and size of
\* every slot 0 .. capacity - 1, padding included, exactly once
C8_EverySlotGenerated ==
    Len(STAR_MEMORY_POOL) = 1 =>
        /\ ListsEachOnce(writes.positions,
                         Len(STAR_MEMORY_POOL[1].positions_x))
        /\ ListsEachOnce(writes.colors, Len(STAR_MEMORY_POOL[1].colors_r))
        /\ ListsEachOnce(writes.sizes, Len(STAR_MEMORY_POOL[1].sizes))

\* C8, amended: the generation stage writes position, color and size of
\* every slot 0 .. count - 1 exactly once, and the padding slots
\* count .. capacity - 1 keep what StarMemoryPool::new put there (position
\* 0.0, color 1.0, size 1.0)
C8_EveryStarGenerated ==
    Len(STAR_MEMORY_POOL) = 1 =>
        /\ ListsEachOnce(writes.positions, STAR_MEMORY_POOL[1].count)
        /\ ListsEachOnce(writes.colors, STAR_MEMORY_POOL[1].count)
        /\ ListsEachOnce(writes.sizes, STAR_MEMORY_POOL[1].count)
        /\ \A n \in (STAR_MEMORY_POOL[1].count + 1)
                        ..Len(STAR_MEMORY_POOL[1].positions_x) :
               /\ STAR_MEMORY_POOL[1].positions_x[n] = F32(0)
               /\ STAR_MEMORY_POOL[1].positions_y[n] = F32(0)
               /\ STAR_MEMORY_POOL[1].positions_z[n] = F32(0)
               /\ STAR_MEMORY_POOL[1].colors_r[n] = F32(1)
               /\ STAR_MEMORY_POOL[1].colors_g[n] = F32(1)
               /\ STAR_MEMORY_POOL[1].colors_b[n] = F32(1)
               /\ STAR_MEMORY_POOL[1].sizes[n] = F32(1)

\* a pool just initialized, with full chunks, a scalar remainder and
\* padding, whose stars have left the defaults
C8_Witness ==
    /\ Len(STAR_MEMORY_POOL) = 1
    /\ Len(frame_result) = 0
    /\ STAR_MEMORY_POOL[1].count > 16
    /\ STAR_MEMORY_POOL[1].count % 16 = 1
    /\ \A n \in 1..STAR_MEMORY_POOL[1].count :
           STAR_MEMORY_POOL[1].positions_x[n] # F32(0)
           \/ STAR_MEMORY_POOL[1].positions_y[n] # F32(0)
           \/ STAR_MEMORY_POOL[1].positions_z[n] # F32(0)

\* the all-visible answer of a culling entry point for count stars
AllVisible(fn, count) ==
    IF fn = "cull_stars_by_frustum_bitpacked"
    THEN [w \in 1..((count + 63) \div 64) |-> 0..63]
    ELSE IF fn = "cull_stars_by_frustum_simd"
    THEN [n \in 1..count |-> 1]
    ELSE [n \in 1..count |-> n - 1]

\* C9: a culling call with a matrix of a length other than 16 returns,
\* without a fault and without a read of positions, the all-visible answer:
\* ceil(count / 64) words of ones, count bytes of 1, the indices
\* 0 .. count - 1
C9_WrongMatrixAllVisible ==
    (/\ Len(call) = 1
     /\ call[1].returned
     /\ Len(call[1].camera_matrix) # 16) =>
        /\ ~call[1].outcome.panicked
        /\ call[1].outcome.positions_read = 0
        /\ call[1].outcome.value = AllVisible(call[1].fn, call[1].count)

\* the byte-per-star entry point has returned from a call with a matrix of
\* 15 elements and a positions slice too short for its 17 stars
C9_Witness ==
    /\ Len(call) = 1
    /\ call[1].returned
    /\ call[1].fn = "cull_stars_by_frustum_simd"
    /\ Len(call[1].camera_matrix) = 15
    /\ call[1].count = 17
    /\ Len(call[1].positions) < 3 * call[1].count
    /\ Len(call[1].outcome.value) = 17

\* C10: for a matrix of 16 elements, bit i of the mask
\* cull_stars_by_frustum_bitpacked returns is 1 exactly when the signed
\* distance of star i to each of the six normalized planes is >= -margin
C10_BitIffInsideAllPlanes ==
    (/\ Len(call) = 1
     /\ call[1].returned
     /\ call[1].fn = "cull_stars_by_frustum_bitpacked"
     /\ Len(call[1].camera_matrix) = 16
     /\ ~call[1].outcome.panicked) =>
        \A i \in 0..(call[1].count - 1) :
            (i % 64) \in call[1].outcome.value[(i \div 64) + 1]
            <=> \A p \in 1..6 :
                    FGe(plane_distance(
                            normalized_planes(call[1].camera_matrix)[p],
                            call[1].positions[i * 3 + 1],
                            call[1].positions[i * 3 + 2],
                            call[1].positions[i * 3 + 3]),
                        FNeg(call[1].margin))


\* bit b of word w (from 1) of the mask m
BitOf(m, w, b) == b \in m[w]

\* C11: set_visibility_bit(mask, k, v) returns a mask of the same length in
\* which the bit of star k (word k / 64, position k % 64) is v and every
\* other bit is as before; for k at or beyond 64 * Len(mask) no bit changes.
\* set_visibility_bits_simd(mask, start, bits) does so for the 8 stars from
\* start, star start + i getting bit i of bits
C11_BitRoundTrip ==
    (/\ Len(call) = 1
     /\ call[1].returned) =>
        /\ Len(call[1].result) = Len(call[1].visibility_mask)
        /\ \A w \in 1..Len(call[1].visibility_mask), b \in 0..63 :
               BitOf(call[1].result, w, b) =
                   IF call[1].fn = "set_visibility_bit"
                   THEN IF 64 * (w - 1) + b = call[1].star_index
                        THEN call[1].visible
                        ELSE BitOf(call[1].visibility_mask, w, b)
                   ELSE IF 64 * (w - 1) + b - call[1].star_index \in 0..7
                        THEN (64 * (w - 1) + b - call[1].star_index)
                                 \in call[1].visibility_bits
                        ELSE BitOf(call[1].visibility_mask, w, b)

\* a bit of the second word was cleared in a mask whose other bits are set
C11_Witness ==
    /\ Len(call) = 1
    /\ call[1].returned
    /\ call[1].fn = "set_visibility_bit"
    /\ call[1].star_index = 64 + 63
    /\ ~call[1].visible
    /\ call[1].visibility_mask = <<0..63, 0..63>>
    /\ call[1].result = <<0..63, 0..62>>

\* the meteors of the pipeline
PipelineMeteors == render_pipeline[1].meteor_system.meteors

\* the number of active meteors of the pipeline
PipelineActive == get_active_meteor_count(render_pipeline[1].meteor_system)

\* C23 (as stated): spawn_meteor returns false and changes no meteor when 20
\* meteors are active; otherwise it returns true and initializes one slot
\* that was inactive, every other meteor stays as it was and the number
\* of active meteors grows by one
C23_SpawnTakesInactiveSlot ==
    [][(Len(call') = 1 /\ call'[1].fn = "spawn_meteor") =>
          IF PipelineActive >= MAX_METEORS
          THEN ~call'[1].returned /\ PipelineMeteors' = PipelineMeteors
          ELSE /\ call'[1].returned
               /\ PipelineActive' = PipelineActive + 1
               /\ \E i \in 1..MAX_METEORS :
                      /\ ~PipelineMeteors[i].active
                      /\ PipelineMeteors'[i].active
                      /\ PipelineMeteors'[i].life = F32(0)
                      /\ \A o \in 1..MAX_METEORS :
                             o # i => PipelineMeteors'[o] = PipelineMeteors[o]
      ]_vars

\* the meteors that the step finishes
Finished ==
    {i \in 1..MAX_METEORS :
        /\ meteor_system[1].meteors[i].active
        /\ ~meteor_system'[1].meteors[i].active}

\* the particles that the step deactivates
Deactivated ==
    {p \in 1..MAX_TOTAL_PARTICLES :
        /\ meteor_system[1].particles[p].active
        /\ ~meteor_system'[1].particles[p].active}

\* the active particles spawned for the meteors of a set: those that carry
\* the glow of one of them
SpawnedFor(finished) ==
    {p \in 1..MAX_TOTAL_PARTICLES :
        /\ meteor_system[1].particles[p].active
        /\ \E i \in finished :
               meteor_system[1].particles[p].color_r
                   = meteor_system[1].meteors[i].glow_r}

\* C24 (as stated): the particles deactivated by a step that finishes
\* meteors (only update_meteors does) are exactly the still-active particles spawned for the meteors it finishes;
\* no particle of another meteor is deactivated, none of a finished meteor
\* is left active
C24_CompletionReleasesOwnParticles ==
    [][Finished # {} => Deactivated = SpawnedFor(Finished)]_vars

\* the indices of the free list of a pool
FreeSet(pool) == {pool.free_indices[k] : k \in 1..Len(pool.free_indices)}

\* free and allocated counts add up to the capacity; an index is in the
\* free list iff its allocation entry is None; the free list holds no index
\* twice
PoolSoundFor(pool, free_set) ==
    /\ get_free_count(pool) + get_allocated_count(pool) = POOL_SIZE
    /\ \A idx \in 0..(POOL_SIZE - 1) :
           (idx \in free_set) <=> (pool.allocations[idx + 1] = << >>)
    /\ free_set \subseteq 0..(POOL_SIZE - 1)
    /\ Cardinality(free_set) = Len(pool.free_indices)

PoolSound == PoolSoundFor(particle_pool[1], FreeSet(particle_pool[1]))

\* the last call asked for more indices than were free
BlockRefused ==
    /\ call[1].fn = "allocate_block"
    /\ get_free_count(call[1].before) < call[1].arg

\* the last call freed an index out of range or free already
FreedInVain ==
    /\ call[1].fn = "free"
    /\ IF call[1].arg >= POOL_SIZE THEN TRUE
       ELSE call[1].before.allocations[call[1].arg + 1] = << >>

\* C25: after any sequence of allocate, allocate_block, free, free_block
\* and free_system the pool is sound (counts add up to 2000, free list =
\* unallocated indices, no duplicates); an allocate_block for more than is
\* free returns None and changes nothing, and the free of a free or
\* out-of-range index changes nothing
C25_PoolStaysSound ==
    Len(particle_pool) = 1 =>
        /\ PoolSound
        /\ BlockRefused =>
               call[1].returned = << >> /\ particle_pool[1] = call[1].before
        /\ FreedInVain => particle_pool[1] = call[1].before

\* an allocate_block was refused while one index was free and the other
\* 1999 allocated
C25_Witness ==
    /\ Len(particle_pool) = 1
    /\ call[1].fn = "allocate_block"
    /\ call[1].returned = << >>
    /\ get_free_count(particle_pool[1]) = 1
    /\ get_allocated_count(particle_pool[1]) = POOL_SIZE - 1

\* the indices of the active particles of a system
ActiveIndices(system) ==
    {i \in 0..(system.max_particles - 1) : system.particles[i + 1].active}

\* the places <<meteor, position>> of the association lists that hold an
\* index
Places(system, index) ==
    {<<k, pos>> \in
        UNION {{k} \X (1..Len(system.meteor_associations[k])) :
               k \in DOMAIN system.meteor_associations} :
        system.meteor_associations[k][pos] = index}

\* active_count = number of active flags = capacity - free-list length; the
\* free list holds exactly the inactive indices, each once; an active
\* index has one place in the association lists, an inactive one none
SystemSoundFor(system, active) ==
    /\ system.active_count = Cardinality(active)
    /\ system.active_count = system.max_particles - Len(system.free_indices)
    /\ {system.free_indices[k] : k \in 1..Len(system.free_indices)}
           = (0..(system.max_particles - 1)) \ active
    /\ Cardinality({system.free_indices[k] :
                       k \in 1..Len(system.free_indices)})
           = Len(system.free_indices)
    /\ \A i \in 0..(system.max_particles - 1) :
           Cardinality(Places(system, i)) = IF i \in active THEN 1 ELSE 0

\* C26: after any sequence of spawn_for_meteor, update_all and
\* free_meteor_particles the counts, the free list and the association
\* lists of the particle system agree with the active flags
C26_SystemStaysSound ==
    Len(particle_system) = 1 =>
        SystemSoundFor(particle_system[1], ActiveIndices(particle_system[1]))

\* an update has expired one particle of a meteor and left another of the
\* same meteor active
C26_Witness ==
    /\ Len(particle_system) = 1
    /\ Len(call) = 1
    /\ call[1].fn = "update_all"
    /\ particle_system[1].active_count = 1
    /\ Len(particle_system[1].free_indices) = MaxParticles - 1
    /\ \E k \in DOMAIN particle_system[1].meteor_associations :
           /\ Len(particle_system[1].meteor_associations[k]) = 1
           /\ particle_system[1].particles[
                  particle_system[1].meteor_associations[k][1] + 1].life
                  > F32(0)
    /\ \E i \in 1..MaxParticles :
           /\ ~particle_system[1].particles[i].active
           /\ FGe(particle_system[1].particles[i].life, F32(50))
\* ------------------------------------------------------------------------
\* C27, C28: the scatter text
\* ------------------------------------------------------------------------

\* the number of slots initialize_scatter_text allocated
Capacity == Len(scatter_text[1].target_x)

\* the last call was fn and it did not panic
ScatterReturned(fn) ==
    IF Len(scatter_text) = 1 /\ Len(call) = 1
    THEN call[1].fn = fn /\ ~call[1].panicked
    ELSE FALSE

\* C27: the particle count never exceeds the capacity allocated at
\* initialization, and neither set_text_pixels nor update_particles
\* reaches for an index outside the allocated arrays (no call panics on an
\* index out of range)
C27_WithinCapacity ==
    Len(scatter_text) = 1 =>
        /\ scatter_text[1].particle_count <= Capacity
        /\ Capacity % SIMD_BATCH_SIZE = 0
        /\ IF Len(call) = 1 THEN ~call[1].panicked ELSE TRUE

\* the particles below the particle count
Live == 0..(scatter_text[1].particle_count - 1)

\* every scattered flag is clear
FlagsClear == \A w \in 1..Len(scatter_text[1].scattered_flags) : scatter_text[1].scattered_flags[w] = {}

\* the opacity of particle index is what it was before the call less the
\* fade rate, or 0 where that would be below 0
Faded(index) ==
    /\ FGe(scatter_text[1].opacity[index + 1], F32(0))
    /\ IF FGe(FSub(call[1].before.opacity[index + 1], call[1].before.fade_rate), F32(0))
       THEN scatter_text[1].opacity[index + 1] = FSub(call[1].before.opacity[index + 1], call[1].before.fade_rate)
       ELSE scatter_text[1].opacity[index + 1] = F32(0)

\* C28: after set_text_pixels and start_forming the phase is forming and
\* every scattered flag is clear; after start_scattering the phase is
\* scattering; an update_particles while scattering leaves every live
\* particle's opacity lower by the fade rate, and at 0 instead of below 0
\* (so that it reaches 0 and stays there); an update_particles while
\* forming leaves every live particle's opacity at 1
C28_PhasesAndFade ==
    /\ ScatterReturned("set_text_pixels") => scatter_text[1].forming /\ FlagsClear
    /\ ScatterReturned("start_forming") => scatter_text[1].forming /\ FlagsClear
    /\ ScatterReturned("start_scattering") => ~scatter_text[1].forming
    /\ ScatterReturned("update_particles") =>
           IF scatter_text[1].forming
           THEN \A index \in Live : scatter_text[1].opacity[index + 1] = F32(1)
           ELSE \A index \in Live : Faded(index)

\* ------------------------------------------------------------------------
\* C29: the memory pool
\* ------------------------------------------------------------------------

\* the buffer at index holds only zeros
ZeroFilled(index) ==
    \A i \in 1..Len(memory_pool[1].buffers[index + 1].data) :
        memory_pool[1].buffers[index + 1].data[i] = F32(0)

\* C29: every buffer whose index is in the available list holds only
\* zeros, and the buffer whose index acquire returned is zero-filled
C29_AvailableBuffersAreZero ==
    Len(memory_pool) = 1 =>
        /\ \A k \in 1..Len(memory_pool[1].available) :
               ZeroFilled(memory_pool[1].available[k])
        /\ (call[1].fn = "acquire" /\ Len(call[1].returned) = 1) =>
               ZeroFilled(call[1].returned[1])


\* the sparkle phase of a star at x, y at time t: the table sine of
\* t * 15 + x * 20 + y * 30
SparklePhaseOf(x, y, t) ==
    fast_sin_lookup(FAdd(FAdd(FMul(t, Dec(15, 0)), FMul(x, Dec(20, 0))),
                         FMul(y, Dec(30, 0))))

\* the base twinkle of a star at x, y at time t: the table sine of
\* t * 3 + x * 10 + y * 10, scaled by 0.3 and offset by 0.7
TwinkleBaseOf(x, y, t) ==
    FAdd(FMul(fast_sin_lookup(
                  FAdd(FAdd(FMul(t, Dec(3, 0)), FMul(x, Dec(10, 0))),
                       FMul(y, Dec(10, 0)))),
              Dec(0, 3000)),
         Dec(0, 7000))

C13_TwinkleIsBasePlusSparkle ==
    Updated =>
        \A i \in 0..(STAR_MEMORY_POOL[1].count - 1) :
            /\ STAR_MEMORY_POOL[1].twinkles[i + 1] =
                   FAdd(TwinkleBaseOf(STAR_MEMORY_POOL[1].positions_x[i + 1],
                                      STAR_MEMORY_POOL[1].positions_y[i + 1],
                                      writes.time),
                        STAR_MEMORY_POOL[1].sparkles[i + 1])
            /\ (STAR_MEMORY_POOL[1].sparkles[i + 1] # F32(0)) =
                   FGt(SparklePhaseOf(STAR_MEMORY_POOL[1].positions_x[i + 1],
                                      STAR_MEMORY_POOL[1].positions_y[i + 1],
                                      writes.time),
                       Dec(0, 9800))

\* a frame update at a nonzero time lifted the twinkle of a star of the
\* scalar remainder above the largest base twinkle
C13_Witness ==
    /\ Updated
    /\ writes.time # F32(0)
    /\ STAR_MEMORY_POOL[1].count % 16 = 15
    /\ \E n \in ((STAR_MEMORY_POOL[1].count \div 16) * 16 + 1)
                    ..STAR_MEMORY_POOL[1].count :
           /\ STAR_MEMORY_POOL[1].sparkles[n] # F32(0)
           /\ STAR_MEMORY_POOL[1].twinkles[n] > Dec(1, 0)

\* the preset of a color draw u: white below 0.5, blue from 0.5 to below
\* 0.7, yellow from 0.7 to below 0.85, purple otherwise
PresetOf(u) ==
    IF IsNaN(u) THEN <<8000, 6000, 10000>>
    ELSE IF u < 5000 THEN <<10000, 10000, 10000>>
    ELSE IF u < 7000 THEN <<6000, 8000, 10000>>
    ELSE IF u < 8500 THEN <<10000, 8000, 4000>>
    ELSE <<8000, 6000, 10000>>

\* C14: the color triple selected for a draw u, by the mask selects of the
\* batch path as by the if-chain of the scalar path, is the preset of u:
\* white (1, 1, 1) if u < 0.5, blue (0.6, 0.8, 1.0) if 0.5 <= u < 0.7, yellow
\* (1.0, 0.8, 0.4) if 0.7 <= u < 0.85, purple (0.8, 0.6, 1.0) otherwise; so
\* both paths select the same triple and its channels are of one preset
C14_ColorIsPresetOfDraw ==
    (/\ Len(call) = 1
     /\ call[1].returned) =>
        /\ call[1].result = PresetOf(call[1].color_choice)
        /\ colors_simd_lane(call[1].color_choice) =
               colors_scalar_choice(call[1].color_choice)

\* the batch path has selected blue for the draw 0.5, the lowest draw that
\* is not white
C14_Witness ==
    /\ Len(call) = 1
    /\ call[1].returned
    /\ call[1].fn = "colors_simd_lane"
    /\ call[1].color_choice = 5000
    /\ call[1].result = <<6000, 8000, 10000>>

\* C15: whatever the angles (negative, large, infinite, NaN), each sine
\* lookup computes table indices within 0 .. 1023, does not fault, and
\* returns for every angle the table entry at its index
C15_LookupIndexInTable ==
    (/\ Len(call) = 1
     /\ call[1].returned) =>
        /\ ~call[1].panicked
        /\ Len(call[1].index) = Len(call[1].values)
        /\ Len(call[1].result) = Len(call[1].values)
        /\ \A k \in 1..Len(call[1].values) :
               /\ call[1].index[k] \in 0..1023
               /\ call[1].result[k] = sin_table_contents[call[1].index[k]]

\* the wide lookup has returned for the angle -1000.0 in lane 0, NaN in
\* lane 1 and 1000.0 in lane 2
C15_Witness ==
    /\ Len(call) = 1
    /\ call[1].returned
    /\ call[1].fn = "fast_sin_lookup_simd_16"
    /\ call[1].values[1] = F32(0 - 1000)
    /\ call[1].values[2] = NaN
    /\ call[1].values[3] = F32(1000)
    /\ call[1].index[1] > 0
    /\ call[1].index[3] > 0
    /\ Len(call[1].result) = 16

\* C16: a NaN angle yields NaN from each sine lookup
C16_NaNAngleYieldsNaN ==
    (/\ Len(call) = 1
     /\ call[1].returned
     /\ ~call[1].panicked) =>
        \A k \in 1..Len(call[1].values) :
            IsNaN(call[1].values[k]) => IsNaN(call[1].result[k])

\* i is one of the indices of the list
Listed(indices, i) == \E n \in 1..Len(indices) : indices[n] = i

\* triples (flag, twinkle, sparkle) against the pairs of effects and the
\* list of indices, star by star
TemporalAgrees(triples, effects, indices, count) ==
    /\ Len(triples) = 3 * count
    /\ \A i \in 0..(count - 1) :
           /\ triples[3 * i + 2] = effects[2 * i + 1]
           /\ triples[3 * i + 3] = effects[2 * i + 2]
           /\ triples[3 * i + 1] \in {F32(0), F32(1)}
           /\ (triples[3 * i + 1] = F32(1)) <=> Listed(indices, i)

\* C17: for the same positions and time, the twinkle and the sparkle that
\* calculate_star_effects_temporal_simd reports for star i are those of
\* calculate_star_effects_arrays, and its flag for star i is 1 exactly
\* when get_stars_needing_update, given the same previous values and
\* threshold, lists i
C17_TemporalMatchesFrameFormulas ==
    (/\ Len(call) = 1
     /\ call[1].returned
     /\ call[1].fn = "calculate_star_effects_temporal_simd") =>
        TemporalAgrees(
            call[1].result,
            calculate_star_effects_arrays(call[1].positions, call[1].count,
                                          call[1].time),
            get_stars_needing_update(call[1].positions,
                                     call[1].previous_twinkles,
                                     call[1].previous_sparkles,
                                     call[1].count, call[1].time,
                                     call[1].threshold),
            call[1].count)

\* a temporal call over 17 stars has returned: in the chunk one star
\* sparkles and is flagged and another is not flagged; the star of the
\* scalar loop is flagged
C17_Witness ==
    /\ Len(call) = 1
    /\ call[1].returned
    /\ call[1].fn = "calculate_star_effects_temporal_simd"
    /\ call[1].count = 17
    /\ \E i \in 0..15 :
           /\ call[1].result[3 * i + 1] = F32(1)
           /\ call[1].result[3 * i + 3] > F32(0)
    /\ \E i \in 0..15 : call[1].result[3 * i + 1] = F32(0)
    /\ call[1].result[3 * 16 + 1] = F32(1)

\* b lies between a and c (IEEE: never with a NaN)
Between(a, b, c) ==
    \/ FGe(b, a) /\ FGe(c, b)
    \/ FGe(a, b) /\ FGe(b, c)

\* the target of the claim: the moving boost times the click boost, 15 at
\* most
TargetOf(boost) == IF FGt(boost, F32(15)) THEN F32(15) ELSE boost

\* the target is the capped product and at least 1; the result is current
\* + 0.2 (target - current) and lies between current and target; over the
\* repeated calls current stays between the first multiplier and the target
SpeedEases(is_moving, click_time, current_time, start, current, result, target) ==
    /\ target = TargetOf(FMul(IF is_moving THEN F32(8) ELSE F32(1),
                              click_boost(click_time, current_time)))
    /\ FGe(target, F32(1))
    /\ result = FAdd(current, FMul(FSub(target, current), Dec(0, 2000)))
    /\ Between(current, result, target)
    /\ Between(start, current, target)

\* C18 as stated: for all inputs the target is the capped product of the
\* boosts and at least 1, the result is current + 0.2 (target - current),
\* lies between current and target, and repeated calls approach the target
\* monotonically without overshooting
C18_EasesForAllInputs ==
    (/\ Len(call) = 1
     /\ call[1].fn = "calculate_speed_multiplier"
     /\ call[1].returned) =>
        SpeedEases(call[1].is_moving, call[1].click_time,
                   call[1].current_time, call[1].start,
                   call[1].current_multiplier, call[1].result[1],
                   speed_multiplier(call[1].is_moving, call[1].click_time,
                                    call[1].current_time))

\* C18, amended: the same for every current multiplier that is a number;
\* a NaN multiplier is returned as NaN
C18_EasesForNumbers ==
    (/\ Len(call) = 1
     /\ call[1].fn = "calculate_speed_multiplier"
     /\ call[1].returned) =>
        IF IsNaN(call[1].start) THEN IsNaN(call[1].result[1])
        ELSE SpeedEases(call[1].is_moving, call[1].click_time,
                        call[1].current_time, call[1].start,
                        call[1].current_multiplier, call[1].result[1],
                        speed_multiplier(call[1].is_moving,
                                         call[1].click_time,
                                         call[1].current_time))

\* the fourth call in a row, moving, with a click 2 s later than the
\* current time: the multiplier started at 1.0, has left it and has not
\* reached the target 15.0
C18_Witness ==
    /\ Len(call) = 1
    /\ call[1].fn = "calculate_speed_multiplier"
    /\ call[1].returned
    /\ call[1].calls = 4
    /\ call[1].is_moving
    /\ call[1].click_time = F32(3)
    /\ call[1].current_time = F32(1)
    /\ call[1].start = F32(1)
    /\ call[1].current_multiplier > F32(1)
    /\ call[1].result[1] > call[1].current_multiplier
    /\ call[1].result[1] < F32(15)

\* the records of a result that name the ids a and b, in either order
RecordsOf(result, a, b) ==
    {n \in 0..((Len(result) \div 6) - 1) :
        \/ result[6 * n + 1] = F32(a) /\ result[6 * n + 2] = F32(b)
        \/ result[6 * n + 1] = F32(b) /\ result[6 * n + 2] = F32(a)}

\* centers closer than (r1 + r2) * overlap_factor
Overlapping(obj1, obj2, overlap_factor) ==
    FLt(center_distance(obj1, obj2),
        FMul(FAdd(obj1.radius, obj2.radius), overlap_factor))

\* record n holds distance, strength and midpoint of the pair
RecordHolds(result, n, obj1, obj2, overlap_factor) ==
    /\ result[6 * n + 3] = center_distance(obj1, obj2)
    /\ result[6 * n + 4] =
           FSub(F32(1),
                FDiv(center_distance(obj1, obj2),
                     FMul(FAdd(obj1.radius, obj2.radius), overlap_factor)))
    /\ result[6 * n + 5] = FDiv(FAdd(obj1.x, obj2.x), F32(2))
    /\ result[6 * n + 6] = FDiv(FAdd(obj1.y, obj2.y), F32(2))

\* one record for each overlapping pair of visible objects, none for any
\* other pair, and nothing else in the result
OverlapsExact(objects, result, overlap_factor) ==
    /\ Len(result) % 6 = 0
    /\ \A a \in 0..(Len(objects) - 1), b \in 0..(Len(objects) - 1) :
           a < b =>
               IF /\ objects[a + 1].is_visible
                  /\ objects[b + 1].is_visible
                  /\ Overlapping(objects[a + 1], objects[b + 1],
                                 overlap_factor)
               THEN /\ Cardinality(RecordsOf(result, a, b)) = 1
                    /\ \A n \in RecordsOf(result, a, b) :
                           RecordHolds(result, n, objects[a + 1],
                                       objects[b + 1], overlap_factor)
               ELSE RecordsOf(result, a, b) = {}
    /\ \A n \in 0..((Len(result) \div 6) - 1) :
           \E a \in 0..(Len(objects) - 1), b \in 0..(Len(objects) - 1) :
               a < b /\ n \in RecordsOf(result, a, b)

\* C19: for any positive overlap_factor find_overlaps returns exactly one
\* record [id1, id2, distance, strength, mid_x, mid_y] for each unordered
\* pair of visible objects whose center distance is less than
\* (r1 + r2) * overlap_factor, and no record for any other pair
C19_OneRecordPerOverlappingPair ==
    (/\ Len(call) = 1
     /\ call[1].fn = "find_overlaps"
     /\ call[1].returned) =>
        OverlapsExact(spatial_grid[1].objects, call[1].result,
                      call[1].overlap_factor)

\* star by star: bit i of the mask is set, flag i is 1 and i is listed
\* together or not at all
ClassifiedAlike(count, mask, flags, indices) ==
    \A i \in 0..(count - 1) :
        /\ ((i % 64) \in mask[(i \div 64) + 1]) <=> (flags[i + 1] = 1)
        /\ (flags[i + 1] = 1) <=> Listed(indices, i)

\* C20: for every matrix of 16 elements, every margin and every i < count,
\* bit i of cull_stars_by_frustum_bitpacked is set exactly when
\* cull_stars_by_frustum_simd[i] is 1 and exactly when
\* get_visible_star_indices lists i
C20_EntryPointsAgree ==
    (/\ Len(call) = 1
     /\ call[1].fn \in CullFunctions
     /\ call[1].returned
     /\ Len(call[1].camera_matrix) = 16
     /\ call[1].count * 3 <= Len(call[1].positions)) =>
        ClassifiedAlike(
            call[1].count,
            cull_stars_by_frustum_bitpacked(
                call[1].positions, call[1].count, call[1].camera_matrix,
                call[1].margin).value,
            cull_stars_by_frustum_simd(
                call[1].positions, call[1].count, call[1].camera_matrix,
                call[1].margin).value,
            get_visible_star_indices(
                call[1].positions, call[1].count, call[1].camera_matrix,
                call[1].margin).value)

\* the result of a frame update without a pool
NothingVisible ==
    [visible_count |-> 0, positions_dirty |-> FALSE,
     effects_dirty |-> FALSE, culling_dirty |-> FALSE]

\* C21: on an initialized pool every frame update, with a camera matrix
\* or without, reports the stored count as visible, effects dirty and
\* culling not dirty, and every word of the visibility mask stays all ones
C21_NeverCulls ==
    Len(STAR_MEMORY_POOL) = 1 =>
        /\ \A w \in 1..Len(STAR_MEMORY_POOL[1].visibility_mask) :
               STAR_MEMORY_POOL[1].visibility_mask[w] = 0..63
        /\ Len(frame_result) = 1 =>
               /\ frame_result[1].visible_count = STAR_MEMORY_POOL[1].count
               /\ frame_result[1].effects_dirty
               /\ ~frame_result[1].culling_dirty

\* a pool of more than 16 stars after the frame update at the time of
\* the second tick, which passes a camera matrix
C21_Witness ==
    /\ Updated
    /\ STAR_MEMORY_POOL[1].count > 16
    /\ writes.time = FrameTime(1)
    /\ frame_result[1].visible_count > 16
    /\ Len(STAR_MEMORY_POOL[1].visibility_mask) >= 1

\* C22: as long as no pool was initialized, frame updates return
\* visible_count 0 with nothing dirty and leave everything as it was at
\* the start, so that a later initialize and update find the state they
\* would have found without them; a pool exists only with the pointers
\* initialize handed out
C22_EarlyUpdateLeavesNoTrace ==
    IF Len(STAR_MEMORY_POOL) = 0
    THEN /\ frame_result \in {<< >>, <<NothingVisible>>}
         /\ ~sin_table_built
         /\ next_alloc = 0
         /\ pointers = << >>
         /\ host_copy = << >>
         /\ writes = NoWrites
    ELSE pointers = <<get_pointers(STAR_MEMORY_POOL[1])>>

\* a frame update has returned while there is no pool
C22_Witness ==
    /\ Len(STAR_MEMORY_POOL) = 0
    /\ frame_result = <<NothingVisible>>
    /\ next_alloc = 0
=============================================================================
